---- MODULE Spec2Model ----
(***************************************************************************)
(* Model of the feathr SQL registry (registry/sql-registry, DbRegistry)    *)
(* and of the store handlers it runs on (registry/handlers).               *)
(*                                                                         *)
(* The registry keeps two tables, entities and edges.  DbRegistry reaches  *)
(* them either through SQLAlchemy (is_sqlalchemy_supported, the default    *)
(* SQLite provider) or through raw SQL on a pymssql connection.  Both      *)
(* paths are modelled; the path is fixed when the registry is built.       *)
(*                                                                         *)
(* Identifiers: uuid4() values are the naturals 1, 2, ... in the order     *)
(* they are drawn; BuiltinId stands for the one stored identifier that is  *)
(* not a UUID (see create_project_anchor).  Qualified names are sequences  *)
(* of atoms, <<a, b>> standing for the string "a__b", so that the string   *)
(* concatenation f"{parent}__{name}" is sequence concatenation.            *)
(***************************************************************************)
EXTENDS Integers, Sequences, FiniteSets, TLC

VARIABLES
    is_sqlalchemy_supported, \* DbConnection.is_sqlalchemy_supported of the provider
    entities,                \* rows of table entities
    edges,                   \* rows of table edges
    uuid_next,               \* the next value uuid4() returns for an entity id
    res,                     \* what the last facade / endpoint call did
    callers,                 \* the create calls in progress (concurrent callers)
    userroles,               \* rows of table userroles of the access-control service
    db_conn,                 \* the provider's retries setting and its query call in progress
    request,                 \* the delete request the endpoint is serving, step by step
    mssql,                   \* the wire connections of an MssqlConnection and the threads on them
    rbac                     \* self.userroles of each DbRBAC instance on the table userroles

vars == <<is_sqlalchemy_supported, entities, edges, uuid_next, res, callers, userroles,
          db_conn, request, mssql, rbac>>

(***************************************************************************)
(* Bounds and input universes                                              *)
(***************************************************************************)
MaxUuid == 3         \* uuid4() draws, facade calls with arbitrary arguments
MaxUuidApi == 5      \* uuid4() draws, well-formed requests and the delete endpoint
MaxUuidRead == 6     \* uuid4() draws, well-formed requests and dependents queries
MaxUuidFault == 3    \* uuid4() draws, create calls on a store that may fail
MaxUuidConc == 3     \* uuid4() draws, two concurrent callers
MaxUuidView == 5     \* uuid4() draws, well-formed requests, lineage and project queries
MaxUuidEdge == 5     \* uuid4() draws, well-formed requests and a feature under its anchor only
MaxUuidRbac == 4     \* uuid4() draws, requests through the access-control service
MaxUuidScope == 3    \* uuid4() draws, create and delete calls on a store that may fail
MaxUuidEmpty == 5    \* uuid4() draws, well-formed requests and the cleanup pass
MaxUuidLookup == 4   \* uuid4() draws, well-formed requests and lookups
MaxIds == 2          \* identifiers in one get_entities call
MaxUuidSearch == 4   \* uuid4() draws, well-formed requests and searches
MaxStart == 2        \* offset of a search page
MaxSize == 2         \* size of a search page
MaxUuidRetry == 2    \* uuid4() draws, create calls beside a retried query
MaxRetries == 4      \* largest DB_CONN_RETRIES of the environment
MaxUuidHttp == 4     \* uuid4() draws, well-formed requests and the anchor-feature endpoint
MaxUuidSteps == 5    \* uuid4() draws, well-formed requests and the delete endpoint step by step
MaxUuidCross == 5    \* uuid4() draws, two projects and references across them
MaxUuidDup == 5      \* uuid4() draws, derived features over lists with repeated inputs
MaxInputs == 2       \* length of an input list of a derived feature
MaxThreads == 2      \* threads that call one MssqlConnection
MaxConnections == 4  \* pymssql.connect calls on one MssqlConnection
MaxUuidDag == 5      \* uuid4() draws, derived features over derived features
MaxRecords == 4      \* rows of table userroles
MaxNode == 3         \* entities of a store whose edges were not written by the create calls
MaxEdges == 3        \* edges of such a store
MaxStatements == 7   \* write statements of one create call that may be the one to fail

BuiltinId == 0      \* the string "<built-in function id>", i.e. str(id)
NoId == -1            \* Python None / nothing returned
NoName == <<>>       \* no qualified name was computed

NoUuid == 99         \* a UUID that uuid4() never returned

EntityType == {"Project", "Source", "Anchor", "AnchorFeature", "DerivedFeature"}
RelationshipType == {"Contains", "BelongsTo", "Consumes", "Produces"}

GlobalName == <<"global">>
ProjectNames == {GlobalName, <<"global", "x">>}
LocalNames == {<<"x">>, <<"y">>}
\* search keywords and type filters
Keywords == {<<"global">>, <<"x">>}
SearchTypes == {EntityType, {"Source", "Anchor"}}
\* qualified names a caller looks up: a project, a source, an anchor, none
LookupNames == {GlobalName, <<"global", "x">>, <<"global", "y">>, <<"nosuch">>}

\* the arguments of the user-role calls, in two letter cases
RoleProjects == {<<"p">>, <<"P">>}
RoleUsers == {"user", "User"}
RoleNames == {"admin", "ADMIN", "consumer"}
AccessTypes == {"read", "write", "manage"}

ProjectDefs == [name : ProjectNames]
SourceDefs == [name : {<<"x">>}, type : {"hdfs"}, options : {0}, preprocessing : {0},
               event_timestamp_column : {"ts"}, timestamp_format : {"epoch", "iso"}]
AnchorDefs(names, ids) == [name : names, source_id : ids]
AnchorFeatureDefs == [name : {<<"x">>}, feature_type : {"int"}, transformation : {"t"},
                      key : {1}]
InputLists(ids) == {<<>>} \cup {<<i>> : i \in ids}
\* the input lists of up to MaxInputs identifiers, repetitions included
RepeatedInputLists(ids) == UNION {[1..n -> ids] : n \in 0..MaxInputs}
RepeatedInputDefs(names, anchor_features, derived_features) ==
    [name : names, feature_type : {"int"}, transformation : {"t"}, key : {1},
     input_anchor_features : RepeatedInputLists(anchor_features),
     input_derived_features : RepeatedInputLists(derived_features)]
DerivedFeatureDefs(names, anchor_features, derived_features) ==
    [name : names, feature_type : {"int"}, transformation : {"t"}, key : {1},
     input_anchor_features : InputLists(anchor_features),
     input_derived_features : InputLists(derived_features)]

(***************************************************************************)
(* Rows                                                                    *)
(***************************************************************************)
EntityRow(id, qn, ty, attr) ==
    [entity_id |-> id, qualified_name |-> qn, entity_type |-> ty, attributes |-> attr]

\* edge_id is a fresh uuid4 in the code; here it numbers the copies of one
\* (from_id, to_id, conn_type) triple, which keeps two copies two rows.
EdgeRow(G, f, t, c) ==
    [edge_id |-> 1 + Cardinality({g \in G : g.from_id = f /\ g.to_id = t /\ g.conn_type = c}),
     from_id |-> f, to_id |-> t, conn_type |-> c]

Range(s) == {s[i] : i \in 1..Len(s)}

(***************************************************************************)
(* Definition -> stored attributes (definition.to_attr(...).to_json() and  *)
(* the json.loads / rgm._to_type that reads them back)                     *)
(***************************************************************************)
ProjectToAttr(d) == [name |-> d.name]
SourceToAttr(d) ==
    [name |-> d.name, type |-> d.type, options |-> d.options,
     preprocessing |-> d.preprocessing,
     event_timestamp_column |-> d.event_timestamp_column,
     timestamp_format |-> d.timestamp_format]
AnchorToAttr(d, ref) == [name |-> d.name, source |-> ref]
AnchorFeatureToAttr(d) ==
    [name |-> d.name, type |-> d.feature_type, transformation |-> d.transformation,
     key |-> d.key]
DerivedFeatureToAttr(d, refs) ==
    [name |-> d.name, type |-> d.feature_type, transformation |-> d.transformation,
     key |-> d.key, input_features |-> refs]

\* rgm._to_uuid: raises ValueError on a string that is not a UUID
IsUuid(x) == x # BuiltinId

\* only AnchorAttributes carries a source
HasSourceAttribute(e) == e.entity_type = "Anchor"

(***************************************************************************)
(* Point lookups                                                           *)
(***************************************************************************)
Ok(v) == [status |-> "ok", value |-> v]
Raise(x) == [status |-> x, value |-> NoId]

BuiltinIdName == <<"<built-in function id>">>

get_entity_id_parsed_IfStored(E, is_uuid, id, name) ==
    IF is_uuid
    THEN IF \E e \in E : e.entity_id = id THEN Ok(id) ELSE Raise("KeyError")
    ELSE LET ret == {e \in E : e.qualified_name = name} IN
         IF ret = {} THEN Raise("KeyError")
         ELSE Ok((CHOOSE e \in ret : TRUE).entity_id)

\* get_entity_id once rgm._to_uuid(id_or_name) has answered: is_uuid says
\* that it returned (the value is id), else name is str(id_or_name)
get_entity_id_parsed(E, is_uuid, id, name) ==
    IF is_uuid THEN Ok(id)
    ELSE LET ret == {e \in E : e.qualified_name = name} IN
         IF ret = {} THEN Raise("KeyError")
         ELSE Ok((CHOOSE e \in ret : TRUE).entity_id)

\* get_entity_id of an identifier read from a row or passed by a caller
get_entity_id(E, id_or_name) ==
    get_entity_id_parsed(E, IsUuid(id_or_name), id_or_name, BuiltinIdName)

\* get_entity_id of a qualified name
get_entity_id_by_name(E, name) == get_entity_id_parsed(E, FALSE, NoId, name)

get_neighbors(E, G, id_or_name, relationship) ==
    LET i == get_entity_id(E, id_or_name) IN
    IF i.status # "ok" THEN i
    ELSE Ok({g \in G : g.from_id = i.value /\ g.conn_type = relationship})

_get_entity(E, id_or_name) ==
    LET i == get_entity_id(E, id_or_name) IN
    IF i.status # "ok" THEN i
    ELSE LET row == {e \in E : e.entity_id = i.value} IN
         IF row = {} THEN Raise("KeyError") ELSE Ok(CHOOSE e \in row : TRUE)

_get_entities(E, ids) == {e \in E : e.entity_id \in ids}

\* Ok(source id) for an Anchor, Ok(NoId) for the other kinds, or the exception.
\* The get_entity(source_id) of the Anchor branch is the lookup of the row: an
\* Anchor consumes what create_project_anchor found to be a Source, and filling
\* a Source reads nothing more.
_fill_entity(E, G, e) ==
    IF e.entity_type = "Project" THEN
        LET n == get_neighbors(E, G, e.entity_id, "Contains") IN
        IF n.status # "ok" THEN n ELSE Ok(NoId)
    ELSE IF e.entity_type = "Anchor" THEN
        LET conn == get_neighbors(E, G, e.entity_id, "Contains") IN
        IF conn.status # "ok" THEN conn
        ELSE LET cons == get_neighbors(E, G, e.entity_id, "Consumes") IN
             IF cons.status # "ok" THEN cons
             ELSE IF cons.value = {} THEN Raise("IndexError")
             ELSE LET source_id == (CHOOSE g \in cons.value : TRUE).to_id
                      source == _get_entity(E, source_id) IN
                  IF source.status # "ok" THEN Raise(source.status)
                  ELSE Ok(source_id)
    ELSE IF e.entity_type = "DerivedFeature" THEN
        LET conn == get_neighbors(E, G, e.entity_id, "Consumes") IN
        IF conn.status # "ok" THEN conn ELSE Ok(NoId)
    ELSE Ok(NoId)

\* [status, value (the row), source_id (of a filled Anchor)]
get_entity(E, G, id_or_name) ==
    LET r == _get_entity(E, id_or_name) IN
    IF r.status # "ok" THEN [status |-> r.status, value |-> NoId, source_id |-> NoId]
    ELSE LET f == _fill_entity(E, G, r.value) IN
         IF f.status # "ok" THEN [status |-> f.status, value |-> NoId, source_id |-> NoId]
         ELSE [status |-> "ok", value |-> r.value, source_id |-> f.value]

\* [_fill_entity(e) for e in _get_entities(ids)]: the rows, or the exception a fill raises
get_entities(E, G, ids) ==
    LET rows == _get_entities(E, ids)
        bad == {e \in rows : _fill_entity(E, G, e).status # "ok"} IN
    IF bad = {} THEN Ok(rows)
    ELSE Raise(_fill_entity(E, G, CHOOSE e \in bad : TRUE).status)

(***************************************************************************)
(* Breadth-first traversal                                                 *)
(***************************************************************************)
_bfs_step(G, ids, conn_type) == {g \in G : g.conn_type = conn_type /\ g.from_id \in ids}

RECURSIVE bfs_loop_DepthLimit(_, _, _, _)
bfs_loop_DepthLimit(G, to_ids, conn_type, fuel) ==
    IF to_ids = {} \/ fuel = 0 THEN [diverges |-> FALSE, connections |-> <<>>]
    ELSE LET r == _bfs_step(G, to_ids, conn_type)
             rest == bfs_loop_DepthLimit(G, {g.to_id : g \in r}, conn_type, fuel - 1) IN
         [diverges |-> rest.diverges,
          connections |-> IF r = {} THEN rest.connections ELSE <<r>> \o rest.connections]

RECURSIVE bfs_loop(_, _, _, _)

bfs_loop_OneStep(G, to_ids, conn_type, fuel) ==
    LET r == _bfs_step(G, to_ids, conn_type) IN
    [diverges |-> FALSE, connections |-> IF r = {} THEN <<>> ELSE <<r>>]

\* the while loop of _bfs: the non-empty step results in order.  A walk longer
\* than the number of edge rows repeats an edge, so the loop never ends.
bfs_loop(G, to_ids, conn_type, fuel) ==
    IF to_ids = {} THEN [diverges |-> FALSE, connections |-> <<>>]
    ELSE IF fuel = 0 THEN [diverges |-> TRUE, connections |-> <<>>]
    ELSE LET r == _bfs_step(G, to_ids, conn_type)
             rest == bfs_loop(G, {g.to_id : g \in r}, conn_type, fuel - 1) IN
         [diverges |-> rest.diverges,
          connections |-> IF r = {} THEN rest.connections ELSE <<r>> \o rest.connections]

\* [status, entities (set of rows), connections (sequence of step results)]
\* the return of _bfs: the walk l and the rows ents that get_entities loaded
_bfs_return(l, ents) ==
    IF l.diverges THEN [status |-> "diverges", entities |-> {}, connections |-> <<>>]
    ELSE IF ents.status # "ok" THEN [status |-> ents.status, entities |-> {}, connections |-> <<>>]
    ELSE [status |-> "ok", entities |-> ents.value, connections |-> l.connections]

\* the ids the walk l from id touched
_bfs_ids(l, id) ==
    LET conns == UNION Range(l.connections) IN
    {id} \cup {g.from_id : g \in conns} \cup {g.to_id : g \in conns}

_bfs_entities(E, G, id, l) == _bfs_return(l, get_entities(E, G, _bfs_ids(l, id)))

_bfs(E, G, id, conn_type) ==
    _bfs_entities(E, G, id, bfs_loop(G, {id}, conn_type, Cardinality(G) + 2))

DependentRelation(entity_type) ==
    IF entity_type \in {"Project", "Anchor"} THEN "Contains" ELSE "Produces"

\* the return of get_dependent_entities: the rows of the walk d but the entity
dependent_entities(d, entity_id) ==
    IF d.status # "ok" THEN Raise(d.status)
    ELSE Ok({e \in d.entities : e.entity_id # entity_id})

\* get_dependent_entities once get_entity has answered with entity
dependent_entities_of(E, G, entity_id, entity) ==
    IF entity.status # "ok" THEN Raise(entity.status)
    ELSE dependent_entities(_bfs(E, G, entity_id, DependentRelation(entity.value.entity_type)),
                            entity_id)

get_dependent_entities(E, G, entity_id) ==
    LET i == get_entity_id(E, entity_id) IN
    IF i.status # "ok" THEN Raise(i.status)
    ELSE dependent_entities_of(E, G, i.value, get_entity(E, G, i.value))

(***************************************************************************)
(* Lineage and project expansion                                           *)
(***************************************************************************)
\* rgm.EntitiesAndRelations(entities, edges): the two lists, given as the
\* lists they were concatenated from, become the entities by id and the edges
\* without repetition: [status, entities, edges]
EntitiesAndRelations(entity_lists, edge_lists) ==
    [status |-> "ok", entities |-> UNION Range(entity_lists),
     edges |-> UNION Range(edge_lists)]

RaiseView(x) == [status |-> x, entities |-> {}, edges |-> {}]

lineage_Upstream(up, down) ==
    IF up.status # "ok" THEN RaiseView(up.status)
    ELSE IF down.status # "ok" THEN RaiseView(down.status)
    ELSE EntitiesAndRelations(<<up.entities>>, up.connections)

\* the return of get_lineage, up and down being what the two _bfs answered
lineage(up, down) ==
    IF up.status # "ok" THEN RaiseView(up.status)
    ELSE IF down.status # "ok" THEN RaiseView(down.status)
    ELSE EntitiesAndRelations(<<up.entities, down.entities>>,
                              up.connections \o down.connections)

get_lineage(E, G, id_or_name) ==
    LET i == get_entity_id(E, id_or_name) IN
    IF i.status # "ok" THEN RaiseView(i.status)
    ELSE lineage(_bfs(E, G, i.value, "Consumes"), _bfs(E, G, i.value, "Produces"))

\* project.attributes.children = children, read back as .anchors and
\* .derived_features: the children of the type
ChildrenOfType(children, entity_type) == {e \in children : e.entity_type = entity_type}

\* only ProjectAttributes sorts its children by type
HasChildrenAttribute(e) == e.entity_type = "Project"

\* select ... from edges where from_id in ids and to_id in ids
_get_edges(G, ids) ==
    IF ids = {} THEN {} ELSE {g \in G : g.from_id \in ids /\ g.to_id \in ids}

\* the body of `for anchor in project.attributes.anchors` for one anchor:
\* the exception it raises, or "ok"
project_anchor(G, child_ids, anchor) ==
    LET conn == {g \in G : g.from_id = anchor.entity_id /\ g.conn_type = "Contains"}
        cons == {g \in G : g.from_id = anchor.entity_id /\ g.conn_type = "Consumes"} IN
    IF ~({g.to_id : g \in conn} \subseteq child_ids) THEN "KeyError"
    ELSE IF cons = {} THEN "IndexError"
    ELSE IF (CHOOSE g \in cons : TRUE).to_id \notin child_ids THEN "KeyError"
    ELSE "ok"

\* the body of `for df in project.attributes.derived_features` for one df
project_derived_feature(G, child_ids, df) ==
    LET conn == {g \in G : g.from_id = df.entity_id /\ g.conn_type = "Consumes"} IN
    IF ~({g.to_id : g \in conn} \subseteq child_ids) THEN "KeyError" ELSE "ok"

\* get_project once the project row, its Contains edges and its children are
\* read.  The anchors are visited before the derived features; the first
\* exception ends the call.
project_expansion(G, project, edges0, children) ==
    LET ids == {g.to_id : g \in edges0}
        child_ids == {e.entity_id : e \in children}
        anchors == ChildrenOfType(children, "Anchor")
        dfs == ChildrenOfType(children, "DerivedFeature")
        bad_anchors == {a \in anchors : project_anchor(G, child_ids, a) # "ok"}
        bad_dfs == {d \in dfs : project_derived_feature(G, child_ids, d) # "ok"}
        conns == {g \in G : \/ /\ g.from_id \in {a.entity_id : a \in anchors}
                                /\ g.conn_type = "Contains"
                             \/ /\ g.from_id \in {d.entity_id : d \in dfs}
                                /\ g.conn_type = "Consumes"} IN
    IF ~HasChildrenAttribute(project) THEN RaiseView("AttributeError")
    ELSE IF bad_anchors # {}
         THEN RaiseView(project_anchor(G, child_ids, CHOOSE a \in bad_anchors : TRUE))
    ELSE IF bad_dfs # {} THEN RaiseView("KeyError")
    ELSE EntitiesAndRelations(<<{project}, children>>, <<edges0, conns, _get_edges(G, ids)>>)

get_project(E, G, id_or_name) ==
    LET project == _get_entity(E, id_or_name)
        edges0 == get_neighbors(E, G, id_or_name, "Contains") IN
    IF project.status # "ok" THEN RaiseView(project.status)
    ELSE project_expansion(G, project.value, edges0.value,
                           _get_entities(E, {g.to_id : g \in edges0.value}))

(***************************************************************************)
(* Search                                                                  *)
(***************************************************************************)
\* the place of an atom in the ordering of the strings
AtomRank(a) ==
    CASE a = "global" -> 1
      [] a = "w" -> 2
      [] a = "x" -> 3
      [] a = "y" -> 4
      [] a = "z" -> 5
      [] OTHER -> 6

\* order by qualified_name: a__b__c strings compared as strings
NameLess(a, b) ==
    \E k \in 1..Len(b) :
        /\ \A j \in 1..(k - 1) : j <= Len(a) /\ a[j] = b[j]
        /\ \/ k = Len(a) + 1
           \/ k <= Len(a) /\ AtomRank(a[k]) < AtomRank(b[k])

\* qualified_name like '%keyword%'
Like(qualified_name, keyword) ==
    \E i \in 0..(Len(qualified_name) - Len(keyword)) :
        \A j \in 1..Len(keyword) : qualified_name[i + j] = keyword[j]

RECURSIVE OrderByQualifiedName(_)
OrderByQualifiedName(rows) ==
    IF rows = {} THEN <<>>
    ELSE LET first == CHOOSE r \in rows :
                          \A o \in rows : ~NameLess(o.qualified_name, r.qualified_name) IN
         <<first>> \o OrderByQualifiedName(rows \ {first})

\* the rows of the select without TOP, in order: [id, qualified_name, type]
search_rows(E, G, keyword, type, project_id) ==
    OrderByQualifiedName(
        {[id |-> e.entity_id, qualified_name |-> e.qualified_name, type |-> e.entity_type] :
            e \in {e \in E : /\ Like(e.qualified_name, keyword)
                             /\ e.entity_type \in type
                             /\ project_id # NoId =>
                                    \E g \in G : /\ g.from_id = e.entity_id
                                                 /\ g.conn_type = "BelongsTo"
                                                 /\ g.to_id = project_id}})

\* select TOP(n): the first n rows
Top(rows, n) == SubSeq(rows, 1, IF n < Len(rows) THEN n ELSE Len(rows))

\* rows[-size:]
Last(rows, size) == SubSeq(rows, IF size < Len(rows) THEN Len(rows) - size + 1 ELSE 1, Len(rows))

\* search_entity; start and size are NoId when the caller passes None.
\* SQLAlchemy branch: the query names orm.Entitiesentity_id (with a project)
\* or orm.Entitiesqualified_name (without), attributes the module orm lacks.
\* The entities joined to several BelongsTo rows are listed once.
search_entity(E, G, sqla, keyword, type, project, start, size) ==
    LET project_id == IF project # NoId THEN get_entity_id(E, project) ELSE Ok(NoId)
        all == search_rows(E, G, keyword, type, project_id.value)
        rows == IF start # NoId /\ size # NoId THEN Top(all, start + size) ELSE all IN
    IF project_id.status # "ok" THEN Raise(project_id.status)
    ELSE IF sqla THEN Raise("AttributeError")
    ELSE Ok(IF size # NoId /\ size # 0 THEN Last(rows, size) ELSE rows)

(***************************************************************************)
(* Deletion                                                                *)
(***************************************************************************)
\* SQLAlchemy branch: the filter (from_id == x) | to_id == x parses as
\* ((from_id == x) | to_id) == x, a truth value compared with the text x, which
\* SQLite finds equal for no row.  Raw-SQL branch: from_id = x OR to_id = x.
EdgeDeleteFilter(sqla, g, entity_id) ==
    IF sqla THEN FALSE ELSE (g.from_id = entity_id \/ g.to_id = entity_id)

_delete_all_entity_edges(G, sqla, entity_id) ==
    {g \in G : ~EdgeDeleteFilter(sqla, g, entity_id)}

_delete_entity(E, entity_id) == {e \in E : e.entity_id # entity_id}

\* SQLAlchemy branch of the two delete statements: self.sql_session.commit()
\* follows each row_to_delete.delete()
SessionCommits == TRUE

\* the autocommit of the connection that MssqlConnection.transaction() hands
\* out: make_connection() connects with self.autocommit (default True); the
\* conn_params copy on which autocommit is set to False is not used
MssqlAutocommit == TRUE

\* what the stores hold after the scope around the delete statements has
\* rolled back: `now` when the statements were committed as they ran
DeleteRollback(sqla, before, now) ==
    IF (IF sqla THEN SessionCommits ELSE MssqlAutocommit) THEN now ELSE before

\* delete_entity on a store that raises at its delete statement `fault`
\* (1: the edges, 2: the entity row, 0: neither): [status, entities, edges]
delete_entity_scope(E, G, sqla, entity_id, fault) ==
    LET i == get_entity_id(E, entity_id)
        before == [entities |-> E, edges |-> G]
        edges_deleted == [entities |-> E, edges |-> _delete_all_entity_edges(G, sqla, i.value)]
        kept == DeleteRollback(sqla, before, IF fault = 1 THEN before ELSE edges_deleted) IN
    IF i.status # "ok" THEN [status |-> i.status, entities |-> E, edges |-> G]
    ELSE IF fault \in {1, 2}
         THEN [status |-> "OperationalError", entities |-> kept.entities, edges |-> kept.edges]
    ELSE [status |-> "ok",
          entities |-> _delete_entity(E, i.value),
          edges |-> edges_deleted.edges]

\* [status, entities, edges]
delete_entity(E, G, sqla, entity_id) == delete_entity_scope(E, G, sqla, entity_id, 0)

delete_empty_test_AtMostTwo(d) ==
    IF d.status # "ok" THEN d.status
    ELSE IF Cardinality(d.entities) <= 2 THEN "delete"
    ELSE "skip"

\* "delete" when the walk d from an entry found the entry alone, "skip" when
\* it found more, else the exception of the walk
delete_empty_test(d) ==
    IF d.status # "ok" THEN d.status
    ELSE IF Cardinality(d.entities) = 1 THEN "delete"
    ELSE "skip"

RECURSIVE delete_empty_loop(_, _, _, _, _, _, _)
\* the loop goes on after the delete_entity that answered x
delete_empty_next(x, sqla, list, k, entity_type, conn_type) ==
    IF x.status # "ok" THEN x
    ELSE delete_empty_loop(x.entities, x.edges, sqla, list, k, entity_type, conn_type)

\* the body of the loop at position k, test being delete_empty_test of the walk
delete_empty_body(E, G, sqla, list, k, entity_type, conn_type, test) ==
    IF test = "delete"
    THEN delete_empty_next(delete_entity(E, G, sqla, list[k].entity_id), sqla, list, k + 1,
                           entity_type, conn_type)
    ELSE IF test = "skip"
         THEN delete_empty_loop(E, G, sqla, list, k + 1, entity_type, conn_type)
    ELSE [status |-> test, entities |-> E, edges |-> G]

\* one of the two for-loops of delete_empty_entities, from position k of the list
delete_empty_loop(E, G, sqla, list, k, entity_type, conn_type) ==
    IF k > Len(list) THEN [status |-> "ok", entities |-> E, edges |-> G]
    ELSE IF list[k].entity_type # entity_type
         THEN delete_empty_loop(E, G, sqla, list, k + 1, entity_type, conn_type)
    ELSE delete_empty_body(E, G, sqla, list, k, entity_type, conn_type,
                           delete_empty_test(_bfs(E, G, list[k].entity_id, conn_type)))

\* one turn of a for-loop of delete_empty_entities on the entry row, test
\* being delete_empty_test of the walk from that entry
delete_empty_turn_tested(E, G, sqla, row, test) ==
    IF test = "delete" THEN delete_entity(E, G, sqla, row.entity_id)
    ELSE IF test = "skip" THEN [status |-> "ok", entities |-> E, edges |-> G]
    ELSE [status |-> test, entities |-> E, edges |-> G]

delete_empty_turn(E, G, sqla, row, entity_type, conn_type) ==
    IF row.entity_type # entity_type THEN [status |-> "ok", entities |-> E, edges |-> G]
    ELSE delete_empty_turn_tested(E, G, sqla, row,
                                  delete_empty_test(_bfs(E, G, row.entity_id, conn_type)))

\* the second for-loop, over the stores a that the first one left
delete_empty_sources(a, sqla, list) ==
    IF a.status # "ok" THEN a
    ELSE delete_empty_loop(a.entities, a.edges, sqla, list, 1, "Source", "Produces")

delete_empty_entities(E, G, sqla, list) ==
    IF Len(list) = 0 THEN [status |-> "ok", entities |-> E, edges |-> G]
    ELSE delete_empty_sources(delete_empty_loop(E, G, sqla, list, 1, "Anchor", "Contains"),
                              sqla, list)

RECURSIVE RowOrders(_)
RowOrders(S) ==
    IF S = {} THEN {<<>>}
    ELSE UNION {{<<x>> \o l : l \in RowOrders(S \ {x})} : x \in S}

\* the orders in which get_dependent_entities may list a set of rows, as far
\* as delete_empty_entities can tell them apart: its first loop sees only the
\* Anchor entries and its second only the Source entries, each in list order
Orderings(S) ==
    LET anchors == {e \in S : e.entity_type = "Anchor"}
        sources == {e \in S : e.entity_type = "Source"}
        others == CHOOSE l \in RowOrders(S \ (anchors \cup sources)) : TRUE IN
    {a \o b \o others : a \in RowOrders(anchors), b \in RowOrders(sources)}

delete_entity_endpoint_Unchecked(E, G, sqla, entity, order) ==
    delete_entity(E, G, sqla, entity)

delete_entity_checked_Ignored(E, G, sqla, entity_id, again) ==
    delete_entity(E, G, sqla, entity_id)

\* DELETE /entity/{entity}: [status, entities, edges]
\* the endpoint after the second get_dependent_entities answered again, the
\* stores being as delete_empty_entities left them
delete_entity_checked(E, G, sqla, entity_id, again) ==
    IF again.status # "ok" THEN [status |-> again.status, entities |-> E, edges |-> G]
    ELSE IF again.value # {}
         THEN [status |-> "PRECONDITION_FAILED", entities |-> E, edges |-> G]
    ELSE delete_entity(E, G, sqla, entity_id)

\* the endpoint after delete_empty_entities answered c
delete_entity_cleaned(c, sqla, entity_id) ==
    IF c.status # "ok" THEN c
    ELSE delete_entity_checked(c.entities, c.edges, sqla, entity_id,
                               get_dependent_entities(c.entities, c.edges, entity_id))

\* the endpoint after the first get_dependent_entities answered down
delete_entity_downstream(E, G, sqla, entity_id, down, order) ==
    IF down.status # "ok" THEN [status |-> down.status, entities |-> E, edges |-> G]
    ELSE IF down.value = {} THEN delete_entity(E, G, sqla, entity_id)
    ELSE delete_entity_cleaned(delete_empty_entities(E, G, sqla, order), sqla, entity_id)

\* DELETE /entity/{entity}: [status, entities, edges]
delete_entity_endpoint(E, G, sqla, entity, order) ==
    LET i == get_entity_id(E, entity) IN
    IF i.status # "ok" THEN [status |-> i.status, entities |-> E, edges |-> G]
    ELSE delete_entity_downstream(E, G, sqla, i.value,
                                  get_dependent_entities(E, G, i.value), order)

(***************************************************************************)
(* Writes.  A create operation is the sequence of write statements it      *)
(* sends once its checks have passed.                                      *)
(***************************************************************************)
InsertEntity(row) == [stmt |-> "insert_entity", row |-> row]
InsertEdge_Reversed(f, t, c) ==
    [stmt |-> "create_edge", from_id |-> t, to_id |-> f, conn_type |-> c]
InsertEdge(f, t, c) == [stmt |-> "create_edge", from_id |-> f, to_id |-> t, conn_type |-> c]

\* entity_id is the primary key of table entities
PrimaryKeyViolated(E, row) == \E e \in E : e.entity_id = row.entity_id

\* SQLAlchemy branch: plain INSERT.  Raw-SQL branch: IF NOT EXISTS ... INSERT.
_create_edge(G, sqla, from_id, to_id, type) ==
    IF sqla THEN G \cup {EdgeRow(G, from_id, to_id, type)}
    ELSE IF \E g \in G : g.from_id = from_id /\ g.to_id = to_id /\ g.conn_type = type
         THEN G
         ELSE G \cup {EdgeRow(G, from_id, to_id, type)}

\* one write statement: [status, entities, edges]
Execute(E, G, sqla, s) ==
    IF s.stmt = "insert_entity"
    THEN IF PrimaryKeyViolated(E, s.row)
         THEN [status |-> "IntegrityError", entities |-> E, edges |-> G]
         ELSE [status |-> "ok", entities |-> E \cup {s.row}, edges |-> G]
    ELSE [status |-> "ok", entities |-> E,
          edges |-> _create_edge(G, sqla, s.from_id, s.to_id, s.conn_type)]

(***************************************************************************)
(* Create operations: the checks, then the writes.                         *)
(* Result: [status, id, created, stmts, qualified_name]                    *)
(***************************************************************************)
Fail(x) == [status |-> x, id |-> NoId, created |-> FALSE, stmts |-> <<>>]
Created(id, stmts) == [status |-> "ok", id |-> id, created |-> TRUE, stmts |-> stmts]

\* the decision together with the qualified name the operation computed
Named(qualified_name, o) ==
    [status |-> o.status, id |-> o.id, created |-> o.created, stmts |-> o.stmts,
     qualified_name |-> qualified_name]

\* return rgm._to_uuid(r[0]["entity_id"])
ReturnExisting(row) ==
    IF IsUuid(row.entity_id)
    THEN [status |-> "ok", id |-> row.entity_id, created |-> FALSE, stmts |-> <<>>]
    ELSE Fail("ValueError")

FindByQualifiedName_NoRow(E, qualified_name) == {}

\* select ... from entities where qualified_name = ...
FindByQualifiedName(E, qualified_name) == {e \in E : e.qualified_name = qualified_name}

TypeMatches_Always(row, entity_type) == TRUE

\* if r[0]["entity_type"] != EntityType.X: raise ConflictError
TypeMatches(row, entity_type) == row.entity_type = entity_type

\* the `if r:` block shared by the five create operations; same holds the rows
\* whose stored attributes the operation's comparison accepts
ExistingEntity(r, entity_type, same) ==
    IF Cardinality(r) > 1 THEN Fail("AssertionError")
    ELSE LET r0 == CHOOSE e \in r : TRUE IN
         IF ~TypeMatches(r0, entity_type) THEN Fail("ConflictError")
         ELSE IF r0 \in same THEN ReturnExisting(r0)
         ELSE Fail("ConflictError")

create_project(E, G, sqla, uuid4, definition) ==
    LET qualified_name == definition.name
        r == FindByQualifiedName(E, qualified_name)
        same == {e \in r : TRUE} IN
    Named(qualified_name,
    IF r # {} THEN ExistingEntity(r, "Project", same)
    ELSE Created(uuid4,
                 <<InsertEntity(EntityRow(uuid4, qualified_name, "Project",
                                          ProjectToAttr(definition)))>>))

create_project_datasource(E, G, sqla, uuid4, project_id, definition) ==
    LET project == get_entity(E, G, project_id)
        qualified_name == project.value.qualified_name \o definition.name
        r == FindByQualifiedName(E, qualified_name)
        same == {e \in r : /\ e.attributes.name = definition.name
                         /\ e.attributes.type = definition.type
                         /\ e.attributes.options = definition.options
                         /\ e.attributes.preprocessing = definition.preprocessing
                         /\ e.attributes.event_timestamp_column = definition.event_timestamp_column
                         /\ e.attributes.timestamp_format = definition.timestamp_format} IN
    IF project.status # "ok" THEN Named(NoName, Fail(project.status)) ELSE
    Named(qualified_name,
    IF r # {} THEN ExistingEntity(r, "Source", same)
    ELSE Created(uuid4,
                 <<InsertEntity(EntityRow(uuid4, qualified_name, "Source",
                                          SourceToAttr(definition))),
                   InsertEdge(project_id, uuid4, "Contains"),
                   InsertEdge(uuid4, project_id, "BelongsTo")>>))

\* the id column of the inserted Anchor row: str(entity_id) in the SQLAlchemy
\* branch, str(id) - the builtin - in the raw-SQL branch
AnchorRowId(sqla, entity_id) == IF sqla THEN entity_id ELSE BuiltinId

create_project_anchor(E, G, sqla, uuid4, project_id, definition) ==
    LET project == get_entity(E, G, project_id)
        qualified_name == project.value.qualified_name \o definition.name
        r == FindByQualifiedName(E, qualified_name)
        same == {e \in r : e.attributes.name = definition.name}
        src == {e \in E : e.entity_id = definition.source_id /\ e.entity_type = "Source"}
        entity_id == uuid4 IN
    IF project.status # "ok" THEN Named(NoName, Fail(project.status)) ELSE
    Named(qualified_name,
    IF r # {} THEN ExistingEntity(r, "Anchor", same)
    ELSE IF src = {} THEN Fail("ValueError")
    ELSE Created(entity_id,
                 <<InsertEntity(EntityRow(AnchorRowId(sqla, entity_id), qualified_name, "Anchor",
                                          AnchorToAttr(definition, definition.source_id))),
                   InsertEdge(project_id, entity_id, "Contains"),
                   InsertEdge(entity_id, project_id, "BelongsTo"),
                   InsertEdge(entity_id, definition.source_id, "Consumes"),
                   InsertEdge(definition.source_id, entity_id, "Produces")>>))

create_project_anchor_feature(E, G, sqla, uuid4, project_id, anchor_id, definition) ==
    LET anchor == get_entity(E, G, anchor_id)
        qualified_name == anchor.value.qualified_name \o definition.name
        r == FindByQualifiedName(E, qualified_name)
        same == {e \in r : /\ e.attributes.name = definition.name
                         /\ e.attributes.type = definition.feature_type
                         /\ e.attributes.transformation = definition.transformation
                         /\ e.attributes.key = definition.key}
        source_id == anchor.source_id
        id == uuid4 IN
    IF anchor.status # "ok" THEN Named(NoName, Fail(anchor.status)) ELSE
    Named(qualified_name,
    IF r # {} THEN ExistingEntity(r, "AnchorFeature", same)
    ELSE IF ~HasSourceAttribute(anchor.value) THEN Fail("AttributeError")
    ELSE Created(id,
                 <<InsertEntity(EntityRow(id, qualified_name, "AnchorFeature",
                                          AnchorFeatureToAttr(definition))),
                   InsertEdge(project_id, id, "Contains"),
                   InsertEdge(id, project_id, "BelongsTo"),
                   InsertEdge(anchor_id, id, "Contains"),
                   InsertEdge(id, anchor_id, "BelongsTo"),
                   InsertEdge(id, source_id, "Consumes"),
                   InsertEdge(source_id, id, "Produces")>>))

\* select ... where entity_id in (ids) and entity_type = ...
FindByIdsAndType(E, ids, entity_type) ==
    {e \in E : e.entity_id \in Range(ids) /\ e.entity_type = entity_type}

RECURSIVE ConsumesProducesPairs_BothConsume(_, _)
ConsumesProducesPairs_BothConsume(id, inputs) ==
    IF inputs = {} THEN <<>>
    ELSE LET input_feature_id == CHOOSE i \in inputs : TRUE IN
         <<InsertEdge(id, input_feature_id, "Consumes"),
           InsertEdge(input_feature_id, id, "Consumes")>>
         \o ConsumesProducesPairs_BothConsume(id, inputs \ {input_feature_id})

RECURSIVE ConsumesProducesPairs(_, _)
\* the edge statements of `for r in r1 + r2`, in some row order
ConsumesProducesPairs(id, inputs) ==
    IF inputs = {} THEN <<>>
    ELSE LET input_feature_id == CHOOSE i \in inputs : TRUE IN
         <<InsertEdge(id, input_feature_id, "Consumes"),
           InsertEdge(input_feature_id, id, "Produces")>>
         \o ConsumesProducesPairs(id, inputs \ {input_feature_id})

create_project_derived_feature(E, G, sqla, uuid4, project_id, definition) ==
    LET project == get_entity(E, G, project_id)
        qualified_name == project.value.qualified_name \o definition.name
        r == FindByQualifiedName(E, qualified_name)
        same == {e \in r : /\ e.attributes.name = definition.name
                         /\ e.attributes.type = definition.feature_type
                         /\ e.attributes.transformation = definition.transformation
                         /\ e.attributes.key = definition.key}
        r1 == FindByIdsAndType(E, definition.input_anchor_features, "AnchorFeature")
        r2 == FindByIdsAndType(E, definition.input_derived_features, "DerivedFeature")
        refs == {e.entity_id : e \in r1 \cup r2}
        id == uuid4 IN
    IF project.status # "ok" THEN Named(NoName, Fail(project.status)) ELSE
    Named(qualified_name,
    IF r # {} THEN ExistingEntity(r, "DerivedFeature", same)
    ELSE IF Cardinality(r1) # Len(definition.input_anchor_features) THEN Fail("ValueError")
    ELSE IF Cardinality(r2) # Len(definition.input_derived_features) THEN Fail("ValueError")
    ELSE Created(id,
                 <<InsertEntity(EntityRow(id, qualified_name, "DerivedFeature",
                                          DerivedFeatureToAttr(definition, refs))),
                   InsertEdge(project_id, id, "Contains"),
                   InsertEdge(id, project_id, "BelongsTo")>>
                 \o ConsumesProducesPairs(id, refs)))

(***************************************************************************)
(* The scoped transaction around the writes                                *)
(***************************************************************************)
\* SQLAlchemy branch: the statements go through self.connection, which commits
\* each one as it is executed; the session the scope rolls back never saw them.
ConnectionAutocommit == TRUE
\* what the store holds after the except-branch has called rollback()
Rollback(sqla, before, now) ==
    IF (IF sqla THEN ConnectionAutocommit ELSE MssqlAutocommit) THEN now ELSE before

RECURSIVE RunStatements(_, _, _, _, _, _)
\* statements k.. of the body; the store raises at statement `fault` (0: never)
RunStatements(E, G, sqla, stmts, k, fault) ==
    IF k > Len(stmts) THEN [status |-> "ok", entities |-> E, edges |-> G]
    ELSE IF k = fault THEN [status |-> "OperationalError", entities |-> E, edges |-> G]
    ELSE LET x == Execute(E, G, sqla, stmts[k]) IN
         IF x.status # "ok" THEN x
         ELSE RunStatements(x.entities, x.edges, sqla, stmts, k + 1, fault)

transaction(E, G, sqla, stmts, fault) ==
    LET x == RunStatements(E, G, sqla, stmts, 1, fault)
        before == [entities |-> E, edges |-> G]
        now == [entities |-> x.entities, edges |-> x.edges]
        kept == Rollback(sqla, before, now) IN
    IF x.status = "ok" THEN x
    ELSE [status |-> x.status, entities |-> kept.entities, edges |-> kept.edges]

(***************************************************************************)
(* The retried query of the store handlers (db/utils.py, db/databases.py)  *)
(***************************************************************************)
\* int(os.getenv("DB_CONN_RETRIES", 3))
DefaultRetries == 3
\* @retry(max_attempts=3, delay_secs=1) on query
max_attempts == 3

\* DbConnection.__init__: self.retries; no query call is in progress.
\* i is the loop variable of the wrapper, attempts counts the calls of func
DbConnection(retries) == [retries |-> retries, pc |-> "idle", i |-> 0, attempts |-> 0]

\* the wrapper after func returned
retry_return(c) == [c EXCEPT !.pc = "returned", !.attempts = @ + 1]
\* the wrapper after func raised: the except branch logs and sleeps, then the
\* loop takes the next i
retry_except(c) == [c EXCEPT !.i = @ + 1, !.attempts = @ + 1]
\* range(max_attempts) is used up: raise Exception("Max retry attempts reached")
retry_raise(c) == [c EXCEPT !.pc = "raised"]

(***************************************************************************)
(* The wire connections of MssqlConnection.  A connection is the number of *)
(* the pymssql.connect call that made it.  conn is self.conn, mutex the    *)
(* thread that holds self.mutex, and for each thread pc is the statement   *)
(* it stands at, made the connection its make_connection call assigned,    *)
(* on the connection of the cursor it runs statements on.                  *)
(***************************************************************************)
Threads == 1..MaxThreads
NoThread == 0
NoConn == 0

\* __init__: self.conn = self.make_connection(); self.mutex = threading.Lock()
MssqlConnection ==
    [conn |-> 1, connects |-> 1, mutex |-> NoThread,
     pc |-> [t \in Threads |-> "idle"],
     made |-> [t \in Threads |-> NoConn],
     on |-> [t \in Threads |-> NoConn]]

\* make_connection, first statement: self.conn = pymssql.connect(...)
make_connection(c, t) ==
    [c EXCEPT !.connects = @ + 1, !.conn = c.connects + 1, !.made[t] = c.connects + 1]

\* the thread has a statement running on a connection
Executing(c, t) == c.pc[t] \in {"query_execute", "transaction_execute"}

(***************************************************************************)
(* Access control (feathr_rbac): the user roles and the project endpoint   *)
(***************************************************************************)
\* rgm.SUPER_ADMIN_SCOPE, the project name of the global admins
SUPER_ADMIN_SCOPE == <<"global">>
RBAC_DEFAULT_ADMIN == "abc@microsoft.com"
Users == {RBAC_DEFAULT_ADMIN, "user"}

\* the project names a requestor may send: the reserved one, the reserved
\* one in other letter case, and another
RequestedNames == {<<"global">>, <<"Global">>, <<"p">>}

\* str.lower() of one word
LowerAtom(a) ==
    CASE a = "Global" -> "global"
      [] a = "P" -> "p"
      [] a = "User" -> "user"
      [] a = "ADMIN" -> "admin"
      [] OTHER -> a

\* str.lower() and str.casefold(), which agree on these names
Lower(name) == [i \in DOMAIN name |-> LowerAtom(name[i])]

\* a column that holds SQL null
Null == "null"

\* the values an insert into userroles gives
UserRole(project_name, user_name, role_name) ==
    [project_name |-> project_name, user_name |-> user_name, role_name |-> role_name]

\* insert into userroles: record_id is the autoincrement key, the delete_*
\* columns are null
InsertUserRole(roles, values) ==
    roles \cup {[record_id |-> Cardinality(roles) + 1, project_name |-> values.project_name,
                 user_name |-> values.user_name, role_name |-> values.role_name,
                 delete_reason |-> Null]}

\* select ... from userroles where delete_reason is null
_get_userroles(roles) == {r \in roles : r.delete_reason = Null}

\* self.userroles = self._get_userroles()
get_userroles(roles) == _get_userroles(roles)

\* _init_admin on the list self.userroles that get_userroles cached
_init_admin(roles) ==
    IF RBAC_DEFAULT_ADMIN \in {r.user_name : r \in get_userroles(roles)} THEN roles
    ELSE InsertUserRole(roles, UserRole(<<"global">>, RBAC_DEFAULT_ADMIN, "admin"))

init_project_admin(roles, creator_name, project_name) ==
    InsertUserRole(roles, UserRole(Lower(project_name), LowerAtom(creator_name), "admin"))

init_userrole_SameCaseOnly(roles, creator_name, project_name) ==
    IF project_name = SUPER_ADMIN_SCOPE THEN [status |-> "BadRequest", userroles |-> roles]
    ELSE IF \E r \in _get_userroles(roles) : r.project_name = Lower(project_name)
         THEN [status |-> "ok", userroles |-> roles]
    ELSE [status |-> "ok", userroles |-> init_project_admin(roles, creator_name, project_name)]

\* [status, userroles]
init_userrole(roles, creator_name, project_name) ==
    IF Lower(project_name) = Lower(SUPER_ADMIN_SCOPE)
    THEN [status |-> "BadRequest", userroles |-> roles]
    ELSE IF \E r \in _get_userroles(roles) : r.project_name = Lower(project_name)
         THEN [status |-> "ok", userroles |-> roles]
    ELSE [status |-> "ok", userroles |-> init_project_admin(roles, creator_name, project_name)]

\* the instances of the access-control service on one table userroles
Instances == {1, 2}

\* DbRBAC.__init__ of each instance in turn: get_userroles(), then
\* _init_admin(), which does not read the table again
DbRBAC == [i \in Instances |-> IF i = 1 THEN get_userroles({}) ELSE get_userroles(_init_admin({}))]

\* rgm.UserRole.access: the access types a role carries
Access(role_name) ==
    CASE role_name = "admin" -> {"read", "write", "manage"}
      [] role_name = "producer" -> {"read", "write"}
      [] role_name = "consumer" -> {"read"}
      [] OTHER -> {}

\* the row is the record of the user's role on the project, the three given
\* in any letter case
SameUserRole(u, project_name, user_name, role_name) ==
    /\ u.project_name = Lower(project_name)
    /\ u.user_name = LowerAtom(user_name)
    /\ u.role_name = LowerAtom(role_name)

\* the test of `for u in self.userroles` in add_userrole
AlreadyExists_AnyCase(u, project_name, user_name, role_name) ==
    SameUserRole(u, project_name, user_name, role_name)

AlreadyExists(u, project_name, user_name, role_name) ==
    /\ u.project_name = Lower(project_name)
    /\ u.user_name = LowerAtom(user_name)
    /\ u.role_name = role_name

\* add_userrole once get_userroles has cached the list: [userroles, cache, value]
add_userrole_checked(roles, cached, project_name, user_name, role_name, exists) ==
    IF exists THEN [userroles |-> roles, cache |-> cached, value |-> "True"]
    ELSE LET added == InsertUserRole(roles, UserRole(Lower(project_name), LowerAtom(user_name),
                                                     LowerAtom(role_name))) IN
         [userroles |-> added, cache |-> get_userroles(added), value |-> "None"]

add_userrole(roles, project_name, user_name, role_name) ==
    add_userrole_checked(roles, get_userroles(roles), project_name, user_name, role_name,
                         \E u \in get_userroles(roles) :
                             AlreadyExists(u, project_name, user_name, role_name))

\* UPDATE userroles SET delete_by, delete_reason, delete_time WHERE user_name,
\* project_name, role_name are the lowered arguments and delete_time is null;
\* then get_userroles: [userroles, cache]
delete_userrole_updated(updated) == [userroles |-> updated, cache |-> get_userroles(updated)]

delete_userrole(roles, project_name, user_name, role_name, delete_reason) ==
    delete_userrole_updated(
        {IF SameUserRole(r, project_name, user_name, role_name) /\ r.delete_reason = Null
         THEN [r EXCEPT !.delete_reason = delete_reason] ELSE r : r \in roles})

\* the loop of validate_project_access_users over the list self.userroles
project_access(roles, project, user, access) ==
    \E u \in roles :
        /\ u.user_name = LowerAtom(user)
        /\ u.project_name \in {Lower(project), SUPER_ADMIN_SCOPE}
        /\ access \in Access(u.role_name)

validate_project_access_users_Cached(cached, roles, project, user, access) ==
    [cache |-> cached, value |-> project_access(cached, project, user, access)]

\* validate_project_access_users on an instance whose list is cached:
\* get_userroles first, then the loop: [cache, value]
validate_project_access_users(cached, roles, project, user, access) ==
    [cache |-> get_userroles(roles),
     value |-> project_access(get_userroles(roles), project, user, access)]

(***************************************************************************)
(* State machine                                                           *)
(***************************************************************************)
NoCall == [none |-> TRUE]

\* the callers that may have a create call in progress at the same time
Callers == {1, 2}
Idle == [pc |-> "idle", op |-> "none", call |-> NoCall, qualified_name |-> NoName,
         status |-> "ok", id |-> NoId, stmts |-> <<>>]

Result(op, status, id, created, qualified_name, call, arg, value) ==
    [op |-> op, status |-> status, id |-> id, created |-> created,
     qualified_name |-> qualified_name, call |-> call, arg |-> arg, value |-> value]

\* the delete endpoint between two requests, and at a point of a request:
\* pc is the statement it stands at, list the rows the first
\* get_dependent_entities returned, k the position of a for-loop in them
RequestIdle == [pc |-> "idle", entity_id |-> NoId, list |-> <<>>, k |-> 0]
RequestAt(pc, entity_id, list, k) == [pc |-> pc, entity_id |-> entity_id, list |-> list, k |-> k]

\* DbRegistry.__init__: the SQLAlchemy branch creates the tables and the
\* project "global"; the raw-SQL branch starts on the tables as they are.
\* the registry built on a provider whose environment holds DB_CONN_RETRIES
Construct(DB_CONN_RETRIES) ==
    /\ is_sqlalchemy_supported \in BOOLEAN
    /\ LET o == create_project({}, {}, TRUE, 1, [name |-> GlobalName])
           t == transaction({}, {}, TRUE, o.stmts, 0) IN
       IF is_sqlalchemy_supported
       THEN entities = t.entities /\ edges = t.edges /\ uuid_next = 2
       ELSE entities = {} /\ edges = {} /\ uuid_next = 1
    /\ res = Result("__init__", "ok", NoId, FALSE, NoName, NoCall, NoId, {})
    /\ callers = [c \in Callers |-> Idle]
    /\ userroles = _init_admin({})
    /\ db_conn = DbConnection(DB_CONN_RETRIES)
    /\ request = RequestIdle
    /\ mssql = MssqlConnection
    /\ rbac = DbRBAC

Init == Construct(DefaultRetries)

\* a create call run to its end: o is what the operation decided, fault the
\* write statement at which the store raises (0: none), max the uuid4() budget
Create(op, call, o, fault, max) ==
    LET t == transaction(entities, edges, is_sqlalchemy_supported, o.stmts, fault)
        done == o.status = "ok" /\ t.status = "ok" IN
    /\ o.created => uuid_next <= max
    /\ fault <= Len(o.stmts)
    /\ entities' = t.entities
    /\ edges' = t.edges
    /\ uuid_next' = IF o.created THEN uuid_next + 1 ELSE uuid_next
    /\ res' = Result(op, IF o.status # "ok" THEN o.status ELSE t.status,
                     IF done THEN o.id ELSE NoId, done /\ o.created, o.qualified_name,
                     IF done /\ o.created THEN call ELSE NoCall, NoId, {})
    /\ UNCHANGED <<is_sqlalchemy_supported, rbac, mssql, db_conn, request, userroles, callers>>

CreateProject(definition, fault, max) ==
    Create("create_project", [definition |-> definition],
           create_project(entities, edges, is_sqlalchemy_supported, uuid_next, definition),
           fault, max)

CreateProjectDatasource(project_id, definition, fault, max) ==
    Create("create_project_datasource",
           [project_id |-> project_id, definition |-> definition],
           create_project_datasource(entities, edges, is_sqlalchemy_supported, uuid_next,
                                     project_id, definition),
           fault, max)

CreateProjectAnchor(project_id, definition, fault, max) ==
    Create("create_project_anchor",
           [project_id |-> project_id, definition |-> definition],
           create_project_anchor(entities, edges, is_sqlalchemy_supported, uuid_next,
                                 project_id, definition),
           fault, max)

CreateProjectAnchorFeature(project_id, anchor_id, definition, fault, max) ==
    Create("create_project_anchor_feature",
           [project_id |-> project_id, anchor_id |-> anchor_id, definition |-> definition],
           create_project_anchor_feature(entities, edges, is_sqlalchemy_supported, uuid_next,
                                         project_id, anchor_id, definition),
           fault, max)

CreateProjectDerivedFeature(project_id, definition, fault, max) ==
    Create("create_project_derived_feature",
           [project_id |-> project_id, definition |-> definition],
           create_project_derived_feature(entities, edges, is_sqlalchemy_supported, uuid_next,
                                          project_id, definition),
           fault, max)

\* POST /projects of the access-control service, once init_userrole has
\* answered u: the request goes on to the registry's create_project unless
\* init_userrole raised
Forwarded(u, definition, o) ==
    LET t == transaction(entities, edges, is_sqlalchemy_supported, o.stmts, 0)
        done == o.status = "ok" /\ t.status = "ok" IN
    IF u.status # "ok"
    THEN /\ res' = Result("new_project", u.status, NoId, FALSE, NoName, NoCall,
                          definition.name, {})
         /\ UNCHANGED <<is_sqlalchemy_supported, rbac, mssql, db_conn, request, entities, edges, uuid_next, callers,
                        userroles>>
    ELSE /\ o.created => uuid_next <= MaxUuidRbac
         /\ entities' = t.entities
         /\ edges' = t.edges
         /\ uuid_next' = IF o.created THEN uuid_next + 1 ELSE uuid_next
         /\ userroles' = u.userroles
         /\ rbac' = IF u.userroles = userroles THEN rbac
                    ELSE [rbac EXCEPT ![1] = get_userroles(u.userroles)]
         /\ res' = Result("new_project", IF o.status # "ok" THEN o.status ELSE t.status,
                          IF done THEN o.id ELSE NoId, done /\ o.created, o.qualified_name,
                          NoCall, definition.name, {})
         /\ UNCHANGED <<is_sqlalchemy_supported, mssql, db_conn, request, callers>>

NewProject(requestor, definition) ==
    Forwarded(init_userrole(userroles, requestor, definition.name), definition,
              create_project(entities, edges, is_sqlalchemy_supported, uuid_next, definition))

\* the stores and the answer after a deletion op answered x
Deleted(op, x, arg) ==
    /\ entities' = x.entities
    /\ edges' = x.edges
    /\ res' = Result(op, x.status, NoId, FALSE, NoName, NoCall, arg, {})
    /\ UNCHANGED <<is_sqlalchemy_supported, rbac, mssql, db_conn, request, userroles, uuid_next, callers>>

DeleteEntity(entity_id) ==
    Deleted("delete_entity",
            delete_entity(entities, edges, is_sqlalchemy_supported, entity_id), entity_id)

\* delete_entity on a store that may raise at one of its two delete statements
DeleteEntityFault(entity_id, fault) ==
    Deleted("delete_entity",
            delete_entity_scope(entities, edges, is_sqlalchemy_supported, entity_id, fault),
            entity_id)

\* the orders in which the list down may come back
ListOrders(down) == IF down.status = "ok" THEN Orderings(down.value) ELSE {<<>>}

\* DbRegistry.delete_empty_entities called with the list of rows `list`
DeleteEmptyEntities(list) ==
    LET x == delete_empty_entities(entities, edges, is_sqlalchemy_supported, list) IN
    /\ entities' = x.entities
    /\ edges' = x.edges
    /\ res' = Result("delete_empty_entities", x.status, NoId, FALSE, NoName, NoCall, NoId,
                     Range(list))
    /\ UNCHANGED <<is_sqlalchemy_supported, rbac, mssql, db_conn, request, userroles, uuid_next, callers>>

\* DbRegistry.get_entity_id called with an identifier
GetEntityId(entity_id) ==
    LET i == get_entity_id(entities, entity_id) IN
    /\ res' = Result("get_entity_id", i.status, i.value, FALSE, NoName, NoCall, entity_id, {})
    /\ UNCHANGED <<is_sqlalchemy_supported, rbac, mssql, db_conn, request, userroles, entities, edges, uuid_next, callers>>

\* DbRegistry.get_entity_id called with a qualified name
GetEntityIdByName(name) ==
    LET i == get_entity_id_by_name(entities, name) IN
    /\ res' = Result("get_entity_id", i.status, i.value, FALSE, name, NoCall, NoId, {})
    /\ UNCHANGED <<is_sqlalchemy_supported, rbac, mssql, db_conn, request, userroles, entities, edges, uuid_next, callers>>

\* DbRegistry.get_entities called with the identifiers ids
GetEntities(ids) ==
    LET d == get_entities(entities, edges, ids) IN
    /\ res' = Result("get_entities", d.status, NoId, FALSE, NoName, [ids |-> ids], NoId,
                     IF d.status = "ok" THEN {e.entity_id : e \in d.value} ELSE {})
    /\ UNCHANGED <<is_sqlalchemy_supported, rbac, mssql, db_conn, request, userroles, entities, edges, uuid_next, callers>>

\* DbRegistry.search_entity
SearchEntity(keyword, type, project, start, size) ==
    LET d == search_entity(entities, edges, is_sqlalchemy_supported, keyword, type, project,
                           start, size) IN
    /\ res' = Result("search_entity", d.status, NoId, FALSE, NoName,
                     [keyword |-> keyword, type |-> type, project |-> project,
                      start |-> start, size |-> size,
                      rows |-> IF d.status = "ok" THEN d.value ELSE <<>>],
                     NoId, {})
    /\ UNCHANGED <<is_sqlalchemy_supported, rbac, mssql, db_conn, request, userroles, entities, edges, uuid_next, callers>>

\* a caller calls db_conn.query(sql): the wrapper of retry starts its loop
Query ==
    /\ db_conn.pc \in {"idle", "returned", "raised"}
    /\ db_conn' = [db_conn EXCEPT !.pc = "for", !.i = 0, !.attempts = 0]
    /\ UNCHANGED <<is_sqlalchemy_supported, rbac, mssql, request, userroles, entities, edges, uuid_next, res,
                   callers>>

\* one turn of `for i in range(max_attempts)`: func is called and returns or raises
QueryAttempt(raises) ==
    /\ db_conn.pc = "for"
    /\ db_conn.i < max_attempts
    /\ db_conn' = IF raises THEN retry_except(db_conn) ELSE retry_return(db_conn)
    /\ UNCHANGED <<is_sqlalchemy_supported, rbac, mssql, request, userroles, entities, edges, uuid_next, res,
                   callers>>

\* the loop has ended without a return
QueryGiveUp ==
    /\ db_conn.pc = "for"
    /\ db_conn.i >= max_attempts
    /\ db_conn' = retry_raise(db_conn)
    /\ UNCHANGED <<is_sqlalchemy_supported, rbac, mssql, request, userroles, entities, edges, uuid_next, res,
                   callers>>

\* DbRegistry._bfs(id, conn_type)
Bfs(id, conn_type) ==
    LET d == _bfs(entities, edges, id, conn_type) IN
    /\ res' = Result("_bfs", d.status, NoId, FALSE, NoName, [conn_type |-> conn_type], id,
                     {e.entity_id : e \in d.entities})
    /\ UNCHANGED <<is_sqlalchemy_supported, rbac, mssql, db_conn, request, userroles, entities, edges, uuid_next, callers>>

\* POST /projects/{project}/anchors/{anchor}/features, project and anchor
\* given as UUIDs: get_entity_id hands both on as they are
NewProjectAnchorFeature(project, anchor, definition, max) ==
    LET project_id == get_entity_id(entities, project)
        anchor_id == get_entity_id(entities, anchor) IN
    /\ project_id.status = "ok"
    /\ anchor_id.status = "ok"
    /\ CreateProjectAnchorFeature(project_id.value, anchor_id.value, definition, 0, max)

\* DELETE /entity/{entity}, statement by statement.  The request answers
\* with the outcome x and the endpoint is idle again.
Answered(x, arg) ==
    /\ entities' = x.entities
    /\ edges' = x.edges
    /\ res' = Result("DELETE /entity, by statement", x.status, NoId, FALSE, NoName, NoCall, arg,
                     {})
    /\ request' = RequestIdle

\* the request goes on at the point r, the stores being those of x
GoesOn(x, r) ==
    /\ entities' = x.entities
    /\ edges' = x.edges
    /\ request' = r
    /\ UNCHANGED res

\* get_entity_id, the first get_dependent_entities and the branch on it
DeleteRequestDownstream(i, down, order) ==
    LET here == [status |-> "ok", entities |-> entities, edges |-> edges] IN
    IF down.status # "ok" THEN Answered([here EXCEPT !.status = down.status], i)
    ELSE IF down.value = {}
         THEN Answered(delete_entity(entities, edges, is_sqlalchemy_supported, i), i)
    ELSE GoesOn(here, RequestAt("Anchor", i, order, 1))

DeleteRequest(entity) ==
    /\ request.pc = "idle"
    /\ LET i == get_entity_id(entities, entity) IN
       IF i.status # "ok"
       THEN Answered([status |-> i.status, entities |-> entities, edges |-> edges], entity)
       ELSE \E order \in ListOrders(get_dependent_entities(entities, edges, i.value)) :
                DeleteRequestDownstream(i.value,
                                        get_dependent_entities(entities, edges, i.value), order)
    /\ UNCHANGED <<is_sqlalchemy_supported, rbac, mssql, db_conn, userroles, uuid_next, callers>>

\* one turn of the for-loop the request stands in, x being its outcome; past
\* the end of the list the Anchor loop hands over to the Source loop, and the
\* Source loop to the second get_dependent_entities
DeleteRequestTurned(x) ==
    IF x.status # "ok" THEN Answered(x, request.entity_id)
    ELSE GoesOn(x, [request EXCEPT !.k = @ + 1])

DeleteRequestTurn ==
    /\ request.pc \in {"Anchor", "Source"}
    /\ IF request.k > Len(request.list)
       THEN GoesOn([entities |-> entities, edges |-> edges],
                   IF request.pc = "Anchor"
                   THEN RequestAt("Source", request.entity_id, request.list, 1)
                   ELSE RequestAt("check", request.entity_id, request.list, 0))
       ELSE DeleteRequestTurned(
                delete_empty_turn(entities, edges, is_sqlalchemy_supported,
                                  request.list[request.k], request.pc,
                                  IF request.pc = "Anchor" THEN "Contains" ELSE "Produces"))
    /\ UNCHANGED <<is_sqlalchemy_supported, rbac, mssql, db_conn, userroles, uuid_next, callers>>

\* the second get_dependent_entities, then PRECONDITION_FAILED or delete_entity
DeleteRequestCheck ==
    /\ request.pc = "check"
    /\ Answered(delete_entity_checked(entities, edges, is_sqlalchemy_supported,
                                      request.entity_id,
                                      get_dependent_entities(entities, edges,
                                                             request.entity_id)),
                request.entity_id)
    /\ UNCHANGED <<is_sqlalchemy_supported, rbac, mssql, db_conn, userroles, uuid_next, callers>>

\* a step of thread t on the MssqlConnection, which becomes c
MssqlStep(c) ==
    /\ ~is_sqlalchemy_supported
    /\ mssql' = c
    /\ UNCHANGED <<is_sqlalchemy_supported, rbac, db_conn, request, userroles, entities, edges,
                   uuid_next, res, callers>>

\* query(sql) or update(sql): self.make_connection()
QueryCall(t) ==
    /\ mssql.pc[t] = "idle"
    /\ mssql.connects < MaxConnections
    /\ MssqlStep([make_connection(mssql, t) EXCEPT !.pc[t] = "query_made"])

\* with self.mutex
QueryAcquire(t) ==
    /\ mssql.pc[t] = "query_made"
    /\ mssql.mutex = NoThread
    /\ MssqlStep([mssql EXCEPT !.mutex = t, !.pc[t] = "query_locked"])

\* c = self.conn.cursor(as_dict=True); c.execute(sql) is running
QueryCursor(t) ==
    /\ mssql.pc[t] = "query_locked"
    /\ MssqlStep([mssql EXCEPT !.on[t] = mssql.conn, !.pc[t] = "query_execute"])

\* return c.fetchall(), or commit and return True: the mutex is released
QueryReturn(t) ==
    /\ mssql.pc[t] = "query_execute"
    /\ MssqlStep([mssql EXCEPT !.mutex = NoThread, !.on[t] = NoConn, !.made[t] = NoConn,
                               !.pc[t] = "idle"])

\* transaction(): conn = self.make_connection(), up to the assignment of self.conn
TransactionConnect(t) ==
    /\ mssql.pc[t] = "idle"
    /\ mssql.connects < MaxConnections
    /\ MssqlStep([make_connection(mssql, t) EXCEPT !.pc[t] = "transaction_made"])

\* make_connection returns self.conn as it is now; cursor = conn.cursor(); yield cursor
TransactionCursor(t) ==
    /\ mssql.pc[t] = "transaction_made"
    /\ MssqlStep([mssql EXCEPT !.on[t] = mssql.conn, !.pc[t] = "transaction"])

\* inside the scope: c.execute(...) starts
TransactionExecute(t) ==
    /\ mssql.pc[t] = "transaction"
    /\ MssqlStep([mssql EXCEPT !.pc[t] = "transaction_execute"])

\* inside the scope: c.execute(...) returns
TransactionExecuted(t) ==
    /\ mssql.pc[t] = "transaction_execute"
    /\ MssqlStep([mssql EXCEPT !.pc[t] = "transaction"])

\* the scope ends: conn.commit()
TransactionCommit(t) ==
    /\ mssql.pc[t] = "transaction"
    /\ MssqlStep([mssql EXCEPT !.on[t] = NoConn, !.made[t] = NoConn, !.pc[t] = "idle"])

\* a call on instance i of the access-control service answered x
RbacCall(i, op, call, x) ==
    /\ rbac' = [rbac EXCEPT ![i] = x.cache]
    /\ res' = Result(op, "ok", NoId, FALSE, NoName, call, NoId, {})
    /\ UNCHANGED <<is_sqlalchemy_supported, mssql, db_conn, request, entities, edges, uuid_next,
                   callers>>

\* DbRBAC.add_userrole
AddUserrole(i, project_name, user_name, role_name) ==
    LET x == add_userrole(userroles, project_name, user_name, role_name) IN
    /\ x.userroles # userroles => Cardinality(userroles) < MaxRecords
    /\ userroles' = x.userroles
    /\ RbacCall(i, "add_userrole",
                [project_name |-> project_name, user_name |-> user_name,
                 role_name |-> role_name, returned |-> x.value], x)

\* DbRBAC.delete_userrole
DeleteUserrole(i, project_name, user_name, role_name) ==
    LET x == delete_userrole(userroles, project_name, user_name, role_name, "reason") IN
    /\ userroles' = x.userroles
    /\ RbacCall(i, "delete_userrole",
                [project_name |-> project_name, user_name |-> user_name,
                 role_name |-> role_name, returned |-> "None"], x)

\* DbRBAC.validate_project_access_users
ValidateProjectAccessUsers(i, project, user, access) ==
    LET x == validate_project_access_users(rbac[i], userroles, project, user, access) IN
    /\ userroles' = userroles
    /\ RbacCall(i, "validate_project_access_users",
                [project_name |-> project, user_name |-> user, access |-> access,
                 returned |-> x.value], x)

\* DELETE /entity/{entity}
DeleteEntityEndpoint(entity) ==
    \E order \in ListOrders(get_dependent_entities(entities, edges, entity)) :
        Deleted("DELETE /entity",
                delete_entity_endpoint(entities, edges, is_sqlalchemy_supported, entity, order),
                entity)

\* the answer of a read that returned d
Read(op, d, arg) ==
    /\ res' = Result(op, d.status, NoId, FALSE, NoName, NoCall, arg,
                     IF d.status = "ok" THEN {e.entity_id : e \in d.value} ELSE {})
    /\ UNCHANGED <<is_sqlalchemy_supported, rbac, mssql, db_conn, request, userroles, entities, edges, uuid_next, callers>>

GetDependentEntities(entity_id) ==
    Read("get_dependent_entities", get_dependent_entities(entities, edges, entity_id), entity_id)

\* the answer of a read that returned the entities and edges v
View(op, v, arg) ==
    /\ res' = Result(op, v.status, NoId, FALSE, NoName, NoCall, arg,
                     [entities |-> {e.entity_id : e \in v.entities}, edges |-> v.edges])
    /\ UNCHANGED <<is_sqlalchemy_supported, rbac, mssql, db_conn, request, userroles, entities, edges, uuid_next, callers>>

GetLineage(id_or_name) ==
    View("get_lineage", get_lineage(entities, edges, id_or_name), id_or_name)

GetProject(id_or_name) ==
    View("get_project", get_project(entities, edges, id_or_name), id_or_name)

(***************************************************************************)
(* Callers                                                                 *)
(***************************************************************************)
\* the identifiers a caller can pass: every UUID drawn so far and one that
\* was never drawn (two such UUIDs behave alike)
CallerIds == 1..(uuid_next - 1) \cup {NoUuid}

IdsOfType(entity_type) ==
    {e.entity_id : e \in {e \in entities : e.entity_type = entity_type}} \ {BuiltinId}

\* references to offer where the code only asks "is it a stored row of this
\* type": the rows of the type, one stored row of another type, one unknown UUID
RefIds(entity_type) ==
    LET wrong == {e.entity_id : e \in entities} \ (IdsOfType(entity_type) \cup {BuiltinId}) IN
    IdsOfType(entity_type) \cup (IF wrong = {} THEN {} ELSE {CHOOSE i \in wrong : TRUE})
        \cup {NoUuid}

\* Facade calls with arbitrary arguments, one at a time, on a store that works
Next ==
    \/ \E d \in ProjectDefs : CreateProject(d, 0, MaxUuid)
    \/ \E p \in CallerIds, d \in SourceDefs : CreateProjectDatasource(p, d, 0, MaxUuid)
    \/ \E p \in CallerIds, d \in AnchorDefs({<<"y">>}, RefIds("Source")) :
           CreateProjectAnchor(p, d, 0, MaxUuid)
    \/ \E p \in CallerIds, a \in CallerIds, d \in AnchorFeatureDefs :
           CreateProjectAnchorFeature(p, a, d, 0, MaxUuid)
    \/ \E p \in CallerIds,
          d \in DerivedFeatureDefs({<<"y">>}, RefIds("AnchorFeature"), RefIds("DerivedFeature")) :
           CreateProjectDerivedFeature(p, d, 0, MaxUuid)
    \/ \E x \in CallerIds : DeleteEntity(x)

Spec == Init /\ [][Next]_vars

\* the create requests of a client that passes the identifiers it was given,
\* each for an entity of the kind the operation expects
ClientCreates(max, faults) ==
    \/ \E d \in {d \in ProjectDefs : d.name = GlobalName}, fault \in faults :
           CreateProject(d, fault, max)
    \/ \E p \in IdsOfType("Project"), d \in {d \in SourceDefs : d.timestamp_format = "epoch"}, fault \in faults :
           CreateProjectDatasource(p, d, fault, max)
    \/ \E p \in IdsOfType("Project"), d \in AnchorDefs({<<"y">>}, IdsOfType("Source")), fault \in faults :
           CreateProjectAnchor(p, d, fault, max)
    \/ \E p \in IdsOfType("Project"), a \in IdsOfType("Anchor"), d \in AnchorFeatureDefs, fault \in faults :
           CreateProjectAnchorFeature(p, a, d, fault, max)
    \/ \E p \in IdsOfType("Project"),
          d \in DerivedFeatureDefs({<<"z">>, <<"w">>}, IdsOfType("AnchorFeature"),
                                   IdsOfType("DerivedFeature")), fault \in faults :
           CreateProjectDerivedFeature(p, d, fault, max)

\* Such a client, deleting through the endpoint
NextApi ==
    \/ ClientCreates(MaxUuidApi, {0})
    \/ \E x \in CallerIds : DeleteEntityEndpoint(x)

SpecApi == Init /\ [][NextApi]_vars

\* Such a client, retiring features through the facade and asking for dependents
NextRead ==
    \/ ClientCreates(MaxUuidRead, {0})
    \/ \E x \in IdsOfType("AnchorFeature") \cup IdsOfType("DerivedFeature") : DeleteEntity(x)
    \/ \E x \in CallerIds : GetDependentEntities(x)

SpecRead == Init /\ [][NextRead]_vars

\* Such a client, deleting through the facade and asking for lineage and for
\* project contents
NextView ==
    \/ ClientCreates(MaxUuidView, {0})
    \/ \E x \in CallerIds : DeleteEntity(x)
    \/ \E x \in CallerIds : GetLineage(x)
    \/ \E x \in CallerIds : GetProject(x)

SpecView == Init /\ [][NextView]_vars

\* Such a client, who may also name the anchor as the project of a feature
NextEdge ==
    \/ ClientCreates(MaxUuidEdge, {0})
    \/ \E a \in IdsOfType("Anchor"), d \in AnchorFeatureDefs :
           CreateProjectAnchorFeature(a, a, d, 0, MaxUuidEdge)

SpecEdge == Init /\ [][NextEdge]_vars

\* Such a client, creating projects through the access-control service too
NextRbac ==
    \/ ClientCreates(MaxUuidRbac, {0})
    \/ \E u \in Users, d \in [name : RequestedNames] : NewProject(u, d)

SpecRbac == Init /\ [][NextRbac]_vars

\* Such a client, deleting through the facade and cleaning up the dependents
\* of an entity, listed in any order
NextEmpty ==
    \/ ClientCreates(MaxUuidEmpty, {0})
    \/ \E x \in CallerIds : DeleteEntity(x)
    \/ \E x \in CallerIds :
           \E list \in ListOrders(get_dependent_entities(entities, edges, x)) :
               DeleteEmptyEntities(list)

SpecEmpty == Init /\ [][NextEmpty]_vars

\* Such a client, deleting through the facade and looking entities up by
\* identifier and by qualified name
NextLookup ==
    \/ ClientCreates(MaxUuidLookup, {0})
    \/ \E x \in CallerIds : DeleteEntity(x)
    \/ \E x \in CallerIds : GetEntityId(x)
    \/ \E name \in LookupNames : GetEntityIdByName(name)
    \/ \E ids \in {ids \in SUBSET CallerIds : Cardinality(ids) <= MaxIds} : GetEntities(ids)

SpecLookup == Init /\ [][NextLookup]_vars

\* Such a client, searching with and without a project, a page at a time
NextSearch ==
    \/ ClientCreates(MaxUuidSearch, {0})
    \/ \E keyword \in Keywords, type \in SearchTypes,
          project \in IdsOfType("Project") \cup {NoId},
          start \in 0..MaxStart, size \in 0..MaxSize :
           SearchEntity(keyword, type, project, start, size)
    \/ \E keyword \in Keywords, type \in SearchTypes, project \in IdsOfType("Project") \cup {NoId} :
           SearchEntity(keyword, type, project, NoId, NoId)

SpecSearch == Init /\ [][NextSearch]_vars

\* Such a client beside a caller of the retried query, under any setting of
\* DB_CONN_RETRIES
NextRetry ==
    \/ \E d \in ProjectDefs : CreateProject(d, 0, MaxUuidRetry)
    \/ \E p \in IdsOfType("Project"), d \in SourceDefs :
           CreateProjectDatasource(p, d, 0, MaxUuidRetry)
    \/ Query
    \/ \E raises \in BOOLEAN : QueryAttempt(raises)
    \/ QueryGiveUp

InitRetry == \E n \in 1..MaxRetries : Construct(n)

SpecRetry == InitRetry /\ [][NextRetry]_vars

\* A store that was filled by other means than the create calls: derived
\* features 1..MaxNode and any few Consumes and Produces edges between them,
\* cycles and self-loops included
NodeRows ==
    {EntityRow(i, GlobalName \o <<ToString(i)>>, "DerivedFeature",
               [name |-> <<ToString(i)>>, type |-> "int", transformation |-> "t", key |-> 1,
                input_features |-> {}]) : i \in 1..MaxNode}
AnyEdges ==
    {[edge_id |-> 1, from_id |-> f, to_id |-> t, conn_type |-> c] :
        f \in 1..MaxNode, t \in 1..MaxNode, c \in {"Consumes", "Produces"}}

InitBfs ==
    /\ is_sqlalchemy_supported \in BOOLEAN
    /\ entities = NodeRows
    /\ edges \in {G \in SUBSET AnyEdges : Cardinality(G) <= MaxEdges}
    /\ uuid_next = MaxNode + 1
    /\ res = Result("__init__", "ok", NoId, FALSE, NoName, NoCall, NoId, {})
    /\ callers = [c \in Callers |-> Idle]
    /\ userroles = _init_admin({})
    /\ db_conn = DbConnection(DefaultRetries)
    /\ request = RequestIdle
    /\ mssql = MssqlConnection
    /\ rbac = DbRBAC

NextBfs == \E id \in 1..MaxNode, conn_type \in {"Consumes", "Produces"} : Bfs(id, conn_type)

SpecBfs == InitBfs /\ [][NextBfs]_vars

\* Such a client, who may post an anchor feature under any project identifier
NextHttp ==
    \/ ClientCreates(MaxUuidHttp, {0})
    \/ \E project \in CallerIds, anchor \in IdsOfType("Anchor"), d \in AnchorFeatureDefs :
           NewProjectAnchorFeature(project, anchor, d, MaxUuidHttp)

SpecHttp == Init /\ [][NextHttp]_vars

\* Well-formed requests and the delete endpoint statement by statement, one
\* request being served at a time
NextSteps ==
    \/ request.pc = "idle" /\ ClientCreates(MaxUuidSteps, {0})
    \/ \E entity \in CallerIds : DeleteRequest(entity)
    \/ DeleteRequestTurn
    \/ DeleteRequestCheck

SpecSteps == Init /\ [][NextSteps]_vars

\* Create requests of the expected kinds over two projects, a reference being
\* any stored entity of the kind the operation expects, and get_project
NextCross ==
    \/ \E d \in {d \in ProjectDefs : d.name # GlobalName} : CreateProject(d, 0, MaxUuidCross)
    \/ ClientCreates(MaxUuidCross, {0})
    \/ \E x \in IdsOfType("Project") : GetProject(x)

SpecCross == Init /\ [][NextCross]_vars

\* Well-formed create requests, and derived features whose input lists may
\* name a stored feature more than once
NextDup ==
    \/ ClientCreates(MaxUuidDup, {0})
    \/ \E p \in IdsOfType("Project"),
          d \in RepeatedInputDefs({<<"z">>, <<"w">>}, IdsOfType("AnchorFeature"),
                                  IdsOfType("DerivedFeature")) :
           CreateProjectDerivedFeature(p, d, 0, MaxUuidDup)

SpecDup == Init /\ [][NextDup]_vars

\* Threads that call query, update and transaction on one MssqlConnection
NextWire ==
    \E t \in Threads :
        \/ QueryCall(t)
        \/ QueryAcquire(t)
        \/ QueryCursor(t)
        \/ QueryReturn(t)
        \/ TransactionConnect(t)
        \/ TransactionCursor(t)
        \/ TransactionExecute(t)
        \/ TransactionExecuted(t)
        \/ TransactionCommit(t)

SpecWire == Init /\ [][NextWire]_vars

\* A project and derived features of up to MaxInputs stored derived features
\* each, every one under a name of its own, and the traversal from any
\* stored entity
NextDag ==
    \/ \E d \in {d \in ProjectDefs : d.name = GlobalName} : CreateProject(d, 0, MaxUuidDag)
    \/ \E p \in IdsOfType("Project"),
          d \in RepeatedInputDefs({<<ToString(uuid_next)>>}, {},
                                  IdsOfType("DerivedFeature")) :
           CreateProjectDerivedFeature(p, d, 0, MaxUuidDag)
    \/ \E id \in CallerIds, conn_type \in RelationshipType : Bfs(id, conn_type)

SpecDag == Init /\ [][NextDag]_vars

\* The user-role calls on two instances of the access-control service
NextRoles ==
    \/ \E i \in Instances, p \in RoleProjects, u \in RoleUsers, r \in RoleNames :
           AddUserrole(i, p, u, r)
    \/ \E i \in Instances, p \in RoleProjects, u \in RoleUsers, r \in RoleNames :
           DeleteUserrole(i, p, u, r)
    \/ \E i \in Instances, p \in RoleProjects, u \in RoleUsers, a \in AccessTypes :
           ValidateProjectAccessUsers(i, p, u, a)

SpecRoles == Init /\ [][NextRoles]_vars

\* Such a client on a store that may raise at any one write statement
NextFault == ClientCreates(MaxUuidFault, 0..MaxStatements)

SpecFault == Init /\ [][NextFault]_vars

\* Such a client, creating and deleting on a store that may raise at any one
\* write statement
NextScope ==
    \/ ClientCreates(MaxUuidScope, 0..MaxStatements)
    \/ \E x \in CallerIds, fault \in 0..2 : DeleteEntityFault(x, fault)

SpecScope == Init /\ [][NextScope]_vars

(***************************************************************************)
(* Two callers whose create calls overlap.  Every statement is committed   *)
(* as it is executed (ConnectionAutocommit, MssqlAutocommit), so the calls *)
(* interleave statement by statement.                                      *)
(***************************************************************************)
\* the reads of a create call (parent lookup, existence check, reference
\* checks) and its uuid4() draw; o is what they decided
Begin(c, op, call, o) ==
    /\ callers[c].pc # "writing"
    /\ o.created => uuid_next <= MaxUuidConc
    /\ callers' = [callers EXCEPT ![c] =
                      [pc |-> IF o.stmts = <<>> THEN "done" ELSE "writing",
                       op |-> op, call |-> call, qualified_name |-> o.qualified_name,
                       status |-> o.status, id |-> o.id, stmts |-> o.stmts]]
    /\ uuid_next' = IF o.created THEN uuid_next + 1 ELSE uuid_next
    /\ UNCHANGED <<is_sqlalchemy_supported, rbac, mssql, db_conn, request, userroles, entities, edges, res>>

BeginCreateProject(c, definition) ==
    Begin(c, "create_project", [definition |-> definition],
          create_project(entities, edges, is_sqlalchemy_supported, uuid_next, definition))

BeginCreateProjectDatasource(c, project_id, definition) ==
    Begin(c, "create_project_datasource",
          [project_id |-> project_id, definition |-> definition],
          create_project_datasource(entities, edges, is_sqlalchemy_supported, uuid_next,
                                    project_id, definition))

\* the next write statement of the call of c
Write(c) ==
    /\ callers[c].pc = "writing"
    /\ LET x == Execute(entities, edges, is_sqlalchemy_supported, Head(callers[c].stmts))
           rest == Tail(callers[c].stmts) IN
       /\ entities' = x.entities
       /\ edges' = x.edges
       /\ callers' = [callers EXCEPT ![c] =
                         [pc |-> IF x.status # "ok" \/ rest = <<>> THEN "done" ELSE "writing",
                          op |-> @.op, call |-> @.call, qualified_name |-> @.qualified_name,
                          status |-> x.status,
                          id |-> IF x.status = "ok" THEN @.id ELSE NoId,
                          stmts |-> IF x.status = "ok" THEN rest ELSE <<>>]]
    /\ UNCHANGED <<is_sqlalchemy_supported, rbac, mssql, db_conn, request, userroles, uuid_next, res>>

NextConc ==
    \/ \E c \in Callers, d \in ProjectDefs : BeginCreateProject(c, d)
    \/ \E c \in Callers, p \in IdsOfType("Project"), d \in SourceDefs :
           BeginCreateProjectDatasource(c, p, d)
    \/ \E c \in Callers : Write(c)

SpecConc == Init /\ [][NextConc]_vars

\* Two callers whose create calls run statement by statement, beside the
\* delete endpoint running statement by statement
NextRace ==
    \/ \E c \in Callers, d \in {d \in ProjectDefs : d.name = GlobalName} :
           BeginCreateProject(c, d)
    \/ \E c \in Callers, p \in IdsOfType("Project"), d \in SourceDefs :
           BeginCreateProjectDatasource(c, p, d)
    \/ \E c \in Callers : Write(c)
    \/ \E entity \in CallerIds : DeleteRequest(entity)
    \/ DeleteRequestTurn
    \/ DeleteRequestCheck

SpecRace == Init /\ [][NextRace]_vars

(***************************************************************************)
(* Properties of the facade under Spec                                     *)
(***************************************************************************)
CreateOps == {"create_project", "create_project_datasource", "create_project_anchor",
              "create_project_anchor_feature", "create_project_derived_feature"}

TypeCreatedBy(op) ==
    CASE op = "create_project" -> "Project"
      [] op = "create_project_datasource" -> "Source"
      [] op = "create_project_anchor" -> "Anchor"
      [] op = "create_project_anchor_feature" -> "AnchorFeature"
      [] op = "create_project_derived_feature" -> "DerivedFeature"
      [] OTHER -> "none"

StoresUnchanged == entities' = entities /\ edges' = edges

\* C1: after any sequence of facade operations run one at a time, no two
\* stored entity rows share a qualified name, whatever their types, and no
\* create operation has met more than one row under the name it looked up.
C1_Uniqueness ==
    /\ \A e1, e2 \in entities : e1.qualified_name = e2.qualified_name => e1 = e2
    /\ res.status # "AssertionError"

\* a create call has just found its name taken, in a store of several rows of
\* different types
C1_Witness ==
    /\ res.op \in CreateOps /\ res.status = "ok" /\ ~res.created
    /\ Cardinality(entities) >= 3
    /\ Cardinality({e.entity_type : e \in entities}) >= 2

\* the call that res describes, made once more with the same arguments
RepeatedCall ==
    \/ /\ res.op = "create_project"
       /\ CreateProject(res.call.definition, 0, MaxUuid)
    \/ /\ res.op = "create_project_datasource"
       /\ CreateProjectDatasource(res.call.project_id, res.call.definition, 0, MaxUuid)
    \/ /\ res.op = "create_project_anchor"
       /\ CreateProjectAnchor(res.call.project_id, res.call.definition, 0, MaxUuid)
    \/ /\ res.op = "create_project_anchor_feature"
       /\ CreateProjectAnchorFeature(res.call.project_id, res.call.anchor_id,
                                     res.call.definition, 0, MaxUuid)
    \/ /\ res.op = "create_project_derived_feature"
       /\ CreateProjectDerivedFeature(res.call.project_id, res.call.definition, 0, MaxUuid)

\* C2: for each of the five kinds, the create call that has just created an
\* entity, made again with the same parent and the same definition, returns
\* the same identifier, adds no row and no edge, and leaves exactly one row
\* under the qualified name.
C2_IdempotentCreation ==
    [][(res.created /\ RepeatedCall) =>
          /\ res'.status = "ok" /\ res'.id = res.id /\ ~res'.created
          /\ StoresUnchanged
          /\ Cardinality(FindByQualifiedName(entities', res.qualified_name)) = 1]_vars

\* C3: a create operation whose computed qualified name belongs to a stored
\* entity of another type fails with ConflictError and leaves the entity
\* store and the edge store as they were.
C3_TypeConflict ==
    [][(/\ res'.op \in CreateOps
        /\ res'.qualified_name # NoName
        /\ \E e \in entities : /\ e.qualified_name = res'.qualified_name
                               /\ e.entity_type # TypeCreatedBy(res'.op))
       => (res'.status = "ConflictError" /\ StoresUnchanged)]_vars

\* a create call has just been refused because a row of another type holds its name
C3_Witness ==
    /\ res.op \in CreateOps /\ res.status = "ConflictError"
    /\ \E e \in entities : /\ e.qualified_name = res.qualified_name
                           /\ e.entity_type # TypeCreatedBy(res.op)

\* a stored row of the type holds the name with attributes other than attr
StoredWithOtherAttributes(qualified_name, entity_type, attr) ==
    \E e \in entities : /\ e.qualified_name = qualified_name
                       /\ e.entity_type = entity_type
                       /\ e.attributes # attr

Refused == res'.status = "ConflictError" /\ StoresUnchanged

InputFeatures(d) == Range(d.input_anchor_features) \cup Range(d.input_derived_features)

\* C4: a create operation whose computed qualified name belongs to a stored
\* entity of the same type whose stored attributes differ from the requested
\* definition in some field fails with ConflictError and leaves the stores
\* unchanged.
C4_AttributeConflict ==
    [][/\ \A p \in CallerIds, d \in SourceDefs :
            (/\ CreateProjectDatasource(p, d, 0, MaxUuid)
             /\ StoredWithOtherAttributes(res'.qualified_name, "Source", SourceToAttr(d)))
            => Refused
       /\ \A p \in CallerIds, d \in AnchorDefs({<<"y">>}, RefIds("Source")) :
            (/\ CreateProjectAnchor(p, d, 0, MaxUuid)
             /\ StoredWithOtherAttributes(res'.qualified_name, "Anchor",
                                          AnchorToAttr(d, d.source_id)))
            => Refused
       /\ \A p \in CallerIds, a \in CallerIds, d \in AnchorFeatureDefs :
            (/\ CreateProjectAnchorFeature(p, a, d, 0, MaxUuid)
             /\ StoredWithOtherAttributes(res'.qualified_name, "AnchorFeature",
                                          AnchorFeatureToAttr(d)))
            => Refused
       /\ \A p \in CallerIds,
             d \in DerivedFeatureDefs({<<"y">>}, RefIds("AnchorFeature"),
                                      RefIds("DerivedFeature")) :
            (/\ CreateProjectDerivedFeature(p, d, 0, MaxUuid)
             /\ StoredWithOtherAttributes(res'.qualified_name, "DerivedFeature",
                                          DerivedFeatureToAttr(d, InputFeatures(d))))
            => Refused]_vars

Resolves(id, entity_type) ==
    \E e \in entities : e.entity_id = id /\ e.entity_type = entity_type

FreeName(qualified_name) == FindByQualifiedName(entities, qualified_name) = {}

MissingInput == res'.status = "ValueError" /\ StoresUnchanged

\* C7: Anchor, AnchorFeature and DerivedFeature creation under a free
\* qualified name, with a referenced identifier (the Anchor's source, the
\* AnchorFeature's anchor, an input of the DerivedFeature) that is not a
\* stored entity of the expected type, fails with ValueError and writes no
\* entity row and no edge.
C7_MissingInput ==
    [][/\ \A p \in CallerIds, d \in AnchorDefs({<<"y">>}, RefIds("Source")) :
            (/\ CreateProjectAnchor(p, d, 0, MaxUuid)
             /\ res'.qualified_name # NoName /\ FreeName(res'.qualified_name)
             /\ ~Resolves(d.source_id, "Source"))
            => MissingInput
       /\ \A p \in CallerIds, a \in CallerIds, d \in AnchorFeatureDefs :
            (/\ CreateProjectAnchorFeature(p, a, d, 0, MaxUuid)
             /\ FreeName(res'.qualified_name)
             /\ ~Resolves(a, "Anchor"))
            => MissingInput
       /\ \A p \in CallerIds,
             d \in DerivedFeatureDefs({<<"y">>}, RefIds("AnchorFeature"),
                                      RefIds("DerivedFeature")) :
            (/\ CreateProjectDerivedFeature(p, d, 0, MaxUuid)
             /\ res'.qualified_name # NoName /\ FreeName(res'.qualified_name)
             /\ \/ \E i \in Range(d.input_anchor_features) : ~Resolves(i, "AnchorFeature")
                \/ \E i \in Range(d.input_derived_features) : ~Resolves(i, "DerivedFeature"))
            => MissingInput]_vars

\* C8: once delete_entity(X) has returned, no stored edge starts or ends at X
\* and get_entity(X) raises KeyError (NotFound).
C8_DeletionIntegrity ==
    (res.op = "delete_entity" /\ res.status = "ok") =>
        /\ \A g \in edges : g.from_id # res.arg /\ g.to_id # res.arg
        /\ get_entity(entities, edges, res.arg).status = "KeyError"

(***************************************************************************)
(* Properties of the delete endpoint (SpecApi) and of the dependents query *)
(* (SpecRead)                                                              *)
(***************************************************************************)
RECURSIVE Closure(_, _, _)
\* ids closed under following edges of relation R
Closure(G, ids, R) ==
    LET more == ids \cup {g.to_id : g \in {g \in G : g.conn_type = R /\ g.from_id \in ids}} IN
    IF more = ids THEN ids ELSE Closure(G, more, R)

\* the ids one or more R-edges away from x
ReachableFrom(G, x, R) ==
    Closure(G, {g.to_id : g \in {g \in G : g.conn_type = R /\ g.from_id = x}}, R)

RelationOf(E, x) ==
    LET t == (CHOOSE e \in E : e.entity_id = x).entity_type IN
    CASE t \in {"Project", "Anchor"} -> "Contains"
      [] t \in {"Source", "AnchorFeature", "DerivedFeature"} -> "Produces"

Stored(E, x) == \E e \in E : e.entity_id = x

\* the ids of the rows of E that are dependents of x in the graph (Before, G)
Dependents(Before, G, E, x) ==
    ({e.entity_id : e \in E} \cap ReachableFrom(G, x, RelationOf(Before, x))) \ {x}

\* a stored Anchor consumes the Source x and contains a stored AnchorFeature
ConsumedByAnchorWithFeatures(x) ==
    \E a \in IdsOfType("Anchor"), f \in IdsOfType("AnchorFeature") :
        /\ \E g \in edges : g.from_id = a /\ g.to_id = x /\ g.conn_type = "Consumes"
        /\ \E g \in edges : g.from_id = a /\ g.to_id = f /\ g.conn_type = "Contains"

\* C9: the delete endpoint applied to a stored entity X removes X exactly
\* when no dependent of X is left once the cleanup pass has removed the empty
\* anchors and sources among them; otherwise it answers PRECONDITION_FAILED
\* and X stays stored.  A Source consumed by an Anchor that still has features
\* is refused, and a Source none of whose dependents is a stored feature is
\* deleted.
C9_DeleteEndpoint ==
    [][(res'.op = "DELETE /entity" /\ Stored(entities, res'.arg)) =>
          LET X == res'.arg
              left == Dependents(entities, edges, entities', X)
              gone == {e.entity_id : e \in entities} \ {e.entity_id : e \in entities'} IN
          /\ res'.status \in {"ok", "PRECONDITION_FAILED"}
          /\ res'.status = "ok" <=> left = {}
          /\ res'.status = "ok" <=> ~Stored(entities', X)
          /\ gone \ {X} \subseteq (IdsOfType("Anchor") \cup IdsOfType("Source"))
                                   \cap Dependents(entities, edges, entities, X)
          /\ (X \in IdsOfType("Source") /\ ConsumedByAnchorWithFeatures(X))
                => res'.status = "PRECONDITION_FAILED"
          /\ (/\ X \in IdsOfType("Source")
              /\ Dependents(entities, edges, entities, X)
                     \cap (IdsOfType("AnchorFeature") \cup IdsOfType("DerivedFeature")) = {})
                => res'.status = "ok"]_vars

\* the endpoint has just deleted a Source whose edges show an anchor of it
\* that contained a feature of it: the features went first, the request for
\* the Source then succeeded and took the emptied anchor with it
C9_Witness ==
    /\ res.op = "DELETE /entity" /\ res.status = "ok"
    /\ ~Stored(entities, res.arg)
    /\ \E g1, g2, g3 \in edges :
          /\ g1.from_id = res.arg /\ g1.conn_type = "Produces"
          /\ g2.from_id = res.arg /\ g2.conn_type = "Produces"
          /\ g3.from_id = g1.to_id /\ g3.to_id = g2.to_id /\ g3.conn_type = "Contains"
          /\ ~Stored(entities, g1.to_id) /\ ~Stored(entities, g2.to_id)

C5_Atomic ==
    [][res'.op \in CreateOps =>
          /\ res'.status # "ok" => StoresUnchanged
          /\ \A e \in entities' \ entities :
                e.entity_type # "Project" =>
                    /\ \E g \in edges' : g.to_id = e.entity_id /\ g.conn_type = "Contains"
                    /\ \E g \in edges' : g.from_id = e.entity_id /\ g.conn_type = "BelongsTo"]_vars

\* C6: when two callers have each finished a create call that computed the
\* same qualified name, exactly one row holds that name, and if their
\* definitions were identical both calls succeeded with the same identifier.
C6_ConcurrentCreators ==
    \A c1, c2 \in Callers :
        (/\ c1 # c2
         /\ callers[c1].pc = "done" /\ callers[c2].pc = "done"
         /\ callers[c1].qualified_name # NoName
         /\ callers[c1].qualified_name = callers[c2].qualified_name)
        => /\ Cardinality(FindByQualifiedName(entities, callers[c1].qualified_name)) = 1
           /\ (callers[c1].op = callers[c2].op /\ callers[c1].call = callers[c2].call)
                 => /\ callers[c1].status = "ok" /\ callers[c2].status = "ok"
                    /\ callers[c1].id = callers[c2].id

(***************************************************************************)
(* Properties of the edge store                                            *)
(***************************************************************************)
Inverse(conn_type) ==
    CASE conn_type = "Contains" -> "BelongsTo"
      [] conn_type = "BelongsTo" -> "Contains"
      [] conn_type = "Consumes" -> "Produces"
      [] conn_type = "Produces" -> "Consumes"

HasEdge(G, from_id, to_id, conn_type) ==
    \E g \in G : g.from_id = from_id /\ g.to_id = to_id /\ g.conn_type = conn_type

\* C11: in every state reached through create and delete calls the edge store
\* is closed under inverses: Contains(a -> b) is stored if and only if
\* BelongsTo(b -> a) is, and Consumes(a -> b) if and only if Produces(b -> a).
C11_InverseClosed ==
    \A g \in edges : HasEdge(edges, g.to_id, g.from_id, Inverse(g.conn_type))

(***************************************************************************)
(* Properties of the lineage and project queries (SpecView)                *)
(***************************************************************************)
\* C14: creating an edge whose (from_id, to_id, relationship type) is already
\* stored is a no-op: after any sequence of create calls the edge store holds
\* at most one edge per triple, also after create_project_anchor_feature was
\* called with project_id equal to anchor_id.
C14_EdgeIdempotence ==
    \A g1, g2 \in edges :
        (g1.from_id = g2.from_id /\ g1.to_id = g2.to_id /\ g1.conn_type = g2.conn_type)
            => g1 = g2

(***************************************************************************)
(* Properties of the project endpoint of the access-control service        *)
(***************************************************************************)
\* C15 as stated: create_project called with the reserved name "global"
\* fails with a Validation error and neither creates nor returns a project.
C15_FacadeRefusesGlobal ==
    [][(res'.op = "create_project" /\ res'.qualified_name = GlobalName)
          => (res'.status = "Validation" /\ res'.id = NoId /\ StoresUnchanged)]_vars

\* C15 as amended: a new-project request to the access-control service whose
\* name is "global" in any letter case fails with BadRequest, returns no
\* project, and leaves the entity store, the edge store and the user roles
\* as they were.
C15_ReservedName ==
    [][(res'.op = "new_project" /\ Lower(res'.arg) = GlobalName)
          => /\ res'.status = "BadRequest" /\ res'.id = NoId
             /\ StoresUnchanged /\ userroles' = userroles]_vars

\* a request for the name in another letter case has just been refused
C15_Witness ==
    /\ res.op = "new_project" /\ res.arg = <<"Global">> /\ res.status = "BadRequest"

(***************************************************************************)
(* Properties of the scope around creation and deletion (SpecScope)        *)
(***************************************************************************)
ScopedOps == CreateOps \cup {"delete_entity"}

\* C17: the scoped transaction commits if and only if its body completes
\* without raising: a create or delete call whose body raised at a write
\* statement re-raises the error and leaves the entity store and the edge
\* store as they were when the scope was entered (every write made inside the
\* scope is rolled back, none is committed).
C17_ScopeRollsBack ==
    [][res'.op \in ScopedOps /\ res'.status = "OperationalError" => StoresUnchanged]_vars

\* the edges with entity_id at either end
EdgesTouching(G, entity_id) == {g \in G : g.from_id = entity_id \/ g.to_id = entity_id}

\* C18: delete_entity(X) removes the edges touching X and X's row as one
\* unit: no call ends with X's row still stored while edges touching X that
\* were stored before the call are gone.
C18_DeleteAtomic ==
    [][res'.op = "delete_entity" =>
          \A e \in entities' :
              e.entity_id = res'.arg => EdgesTouching(edges, res'.arg) \subseteq edges']_vars

(***************************************************************************)
(* Shape of the edge store                                                 *)
(***************************************************************************)
\* C19: in every state reached through create and delete calls the edges of
\* each relationship type form an acyclic graph (no entity is reachable from
\* itself along edges of one type), so the BFS of get_lineage,
\* get_dependent_entities and delete_empty_entities, started at any entity,
\* terminates.
C19_Acyclic ==
    \A R \in RelationshipType, x \in {g.from_id : g \in edges} :
        /\ x \notin ReachableFrom(edges, x, R)
        /\ ~bfs_loop(edges, {x}, R, Cardinality(edges) + 2).diverges

\* a BFS that went two levels deep: edges x -> y -> z of one type are stored
C19_Witness ==
    \E g1 \in edges, g2 \in edges :
        /\ g1.conn_type = g2.conn_type
        /\ g1.to_id = g2.from_id
        /\ Len(bfs_loop(edges, {g1.from_id}, g1.conn_type, Cardinality(edges) + 2).connections) >= 2

\* the entity type of the stored row with this id
TypeOf(entity_id) == (CHOOSE e \in entities : e.entity_id = entity_id).entity_type

\* C20: every Contains edge between stored entities goes from a Project to a
\* Source, Anchor, AnchorFeature or DerivedFeature, or from an Anchor to an
\* AnchorFeature; every Consumes edge between stored entities goes from an
\* Anchor or an AnchorFeature to a Source, or from a DerivedFeature to an
\* AnchorFeature or a DerivedFeature.
C20_EdgeTypes ==
    \A g \in edges :
        Stored(entities, g.from_id) /\ Stored(entities, g.to_id) =>
            /\ g.conn_type = "Contains" =>
                  \/ /\ TypeOf(g.from_id) = "Project"
                     /\ TypeOf(g.to_id) \in {"Source", "Anchor", "AnchorFeature", "DerivedFeature"}
                  \/ /\ TypeOf(g.from_id) = "Anchor"
                     /\ TypeOf(g.to_id) = "AnchorFeature"
            /\ g.conn_type = "Consumes" =>
                  \/ /\ TypeOf(g.from_id) \in {"Anchor", "AnchorFeature"}
                     /\ TypeOf(g.to_id) = "Source"
                  \/ /\ TypeOf(g.from_id) = "DerivedFeature"
                     /\ TypeOf(g.to_id) \in {"AnchorFeature", "DerivedFeature"}

(***************************************************************************)
(* The two modes side by side                                              *)
(***************************************************************************)
\* what a create call that decided o answers and leaves in the stores when
\* the registry runs in the given mode
CreateOutcome(o, sqla) ==
    LET t == transaction(entities, edges, sqla, o.stmts, 0) IN
    [status |-> IF o.status # "ok" THEN o.status ELSE t.status,
     id |-> IF o.status = "ok" /\ t.status = "ok" THEN o.id ELSE NoId,
     entities |-> t.entities, edges |-> t.edges]

\* C16: from the same store contents every facade call returns the same
\* result or the same error, and leaves the same entity store and edge
\* store, in SQLAlchemy mode as in raw-SQL mode; hence so does every sequence
\* of calls.
C16_ModesAgree ==
    /\ \A d \in ProjectDefs :
          CreateOutcome(create_project(entities, edges, TRUE, uuid_next, d), TRUE)
            = CreateOutcome(create_project(entities, edges, FALSE, uuid_next, d), FALSE)
    /\ \A p \in CallerIds, d \in SourceDefs :
          CreateOutcome(create_project_datasource(entities, edges, TRUE, uuid_next, p, d), TRUE)
            = CreateOutcome(create_project_datasource(entities, edges, FALSE, uuid_next, p, d),
                            FALSE)
    /\ \A p \in CallerIds, d \in AnchorDefs({<<"y">>}, RefIds("Source")) :
          CreateOutcome(create_project_anchor(entities, edges, TRUE, uuid_next, p, d), TRUE)
            = CreateOutcome(create_project_anchor(entities, edges, FALSE, uuid_next, p, d), FALSE)
    /\ \A p \in CallerIds, a \in CallerIds, d \in AnchorFeatureDefs :
          CreateOutcome(create_project_anchor_feature(entities, edges, TRUE, uuid_next,
                                                      p, a, d), TRUE)
            = CreateOutcome(create_project_anchor_feature(entities, edges, FALSE, uuid_next,
                                                          p, a, d), FALSE)
    /\ \A p \in CallerIds,
          d \in DerivedFeatureDefs({<<"y">>}, RefIds("AnchorFeature"), RefIds("DerivedFeature")) :
          CreateOutcome(create_project_derived_feature(entities, edges, TRUE, uuid_next, p, d),
                        TRUE)
            = CreateOutcome(create_project_derived_feature(entities, edges, FALSE, uuid_next,
                                                           p, d), FALSE)
    /\ \A x \in CallerIds :
          delete_entity(entities, edges, TRUE, x) = delete_entity(entities, edges, FALSE, x)

\* x and the ids one or more R-edges away from it
Walk(G, x, R) == {x} \cup ReachableFrom(G, x, R)

\* the R-edges a traversal from x meets
EdgesMet(G, x, R) == {g \in G : g.conn_type = R /\ g.from_id \in Walk(G, x, R)}

StoredIds(E) == {e.entity_id : e \in E}

\* C12: get_lineage(X) of a stored X returns as entities exactly X and the
\* stored entities reachable from X along Consumes edges only or along
\* Produces edges only, and as edges exactly the Consumes edges and the
\* Produces edges those two traversals meet, each entity and edge once.
C12_Lineage ==
    (res.op = "get_lineage" /\ res.status = "ok" /\ Stored(entities, res.arg)) =>
        /\ res.value.entities =
               StoredIds(entities) \cap (Walk(edges, res.arg, "Consumes")
                                           \cup Walk(edges, res.arg, "Produces"))
        /\ res.value.edges = EdgesMet(edges, res.arg, "Consumes")
                                \cup EdgesMet(edges, res.arg, "Produces")

\* lineage was returned for an entity with stored entities both upstream and
\* downstream of it
C12_Witness ==
    /\ res.op = "get_lineage" /\ res.status = "ok" /\ Stored(entities, res.arg)
    /\ \E u, d \in res.value.entities :
          /\ Cardinality({u, d, res.arg}) = 3
          /\ HasEdge(res.value.edges, res.arg, u, "Consumes")
          /\ HasEdge(res.value.edges, res.arg, d, "Produces")

\* the stored entities that project p directly contains
Members(E, G, p) == {e \in E : HasEdge(G, p, e.entity_id, "Contains")}

\* the ownership and lineage edges of project p and its members: Contains
\* from p to a member and from an anchor to a member, Consumes from a member
\* to a member
ForwardEdges(E, G, p) ==
    LET member == StoredIds(Members(E, G, p))
        anchor == StoredIds(ChildrenOfType(Members(E, G, p), "Anchor")) IN
    {g \in G : /\ g.to_id \in member
               /\ \/ g.conn_type = "Contains" /\ g.from_id \in {p} \cup anchor
                  \/ g.conn_type = "Consumes" /\ g.from_id \in member}

\* those edges and the stored inverse of each
EdgesOfProject(E, G, p) ==
    ForwardEdges(E, G, p)
        \cup {g \in G : \E f \in ForwardEdges(E, G, p) :
                  /\ g.from_id = f.to_id /\ g.to_id = f.from_id
                  /\ g.conn_type = Inverse(f.conn_type)}

\* C13: get_project(p) of a stored project p whose members were created under
\* it returns as entities exactly p and the entities p directly contains, and
\* as edges the Contains edges from p to its members and from anchors to their
\* features, the Consumes edges among the members, and the inverse of each of
\* those, the BelongsTo edges from the members back to p included.
C13_ProjectExpansion ==
    (res.op = "get_project" /\ res.arg \in IdsOfType("Project")) =>
        /\ res.status = "ok"
        /\ res.value.entities = {res.arg} \cup StoredIds(Members(entities, edges, res.arg))
        /\ res.value.edges = EdgesOfProject(entities, edges, res.arg)

(***************************************************************************)
(* Properties of the cleanup pass (SpecEmpty)                              *)
(***************************************************************************)
\* the rows of C stored in E, of the given type, from which no other row of E
\* is reachable along the edges of type R
EmptyOnes(E, G, C, entity_type, R) ==
    {e \in C \cap E :
        /\ e.entity_type = entity_type
        /\ ({x.entity_id : x \in E} \cap ReachableFrom(G, e.entity_id, R)) \ {e.entity_id} = {}}

\* C21: delete_empty_entities(E) deletes exactly the Anchors of E with no
\* Contains-reachable entity other than themselves and the Sources of E that,
\* once those anchors are gone, have no Produces-reachable entity other than
\* themselves; it deletes nothing outside E.
C21_CleanupPass ==
    [][res'.op = "delete_empty_entities" =>
          LET anchors == EmptyOnes(entities, edges, res'.value, "Anchor", "Contains")
              sources == EmptyOnes(entities \ anchors, edges, res'.value, "Source", "Produces") IN
          /\ (entities \ entities') \subseteq res'.value
          /\ res'.status = "ok" => entities \ entities' = anchors \cup sources]_vars

\* a pass that deleted an empty anchor and then the source it left empty
C21_Witness ==
    /\ res.op = "delete_empty_entities"
    /\ res.status = "ok"
    /\ \E a \in res.value \ entities, s \in res.value \ entities :
          a.entity_type = "Anchor" /\ s.entity_type = "Source"

(***************************************************************************)
(* Properties of the lookups (SpecLookup)                                  *)
(***************************************************************************)
\* C22: get_entity_id(x) returns x itself, stored or not, when x is an
\* identifier; when x is a qualified name it returns the identifier of the
\* stored entity of that qualified name, and raises KeyError (NotFound) when
\* no stored entity has it.
C22_GetEntityId ==
    [][res'.op = "get_entity_id" =>
          IF res'.arg # NoId
          THEN res'.status = "ok" /\ res'.id = res'.arg
          ELSE IF \E e \in entities : e.qualified_name = res'.qualified_name
               THEN /\ res'.status = "ok"
                    /\ \E e \in entities : /\ e.qualified_name = res'.qualified_name
                                           /\ e.entity_id = res'.id
               ELSE res'.status = "KeyError"]_vars

\* an identifier that is not stored was returned as it is, and a name was resolved
C22_Witness ==
    /\ res.op = "get_entity_id"
    /\ res.status = "ok"
    /\ \/ res.arg # NoId /\ ~Stored(entities, res.arg)
       \/ res.arg = NoId /\ Stored(entities, res.id)

\* C23: get_entities(ids) raises KeyError (NotFound) whenever some identifier
\* of ids is not the identifier of a stored entity; it never returns only the
\* entities that exist.
C23_GetEntitiesNotFound ==
    [][res'.op = "get_entities" =>
          ((\E i \in res'.call.ids : ~Stored(entities, i)) => res'.status = "KeyError")]_vars

(***************************************************************************)
(* Properties of the search (SpecSearch)                                   *)
(***************************************************************************)
\* the entries of `all` at positions start .. start + size - 1, counted from 0
Page(all, start, size) ==
    LET n == IF Len(all) - start < size THEN Len(all) - start ELSE size IN
    [k \in 1..(IF n < 0 THEN 0 ELSE n) |-> all[start + k]]

\* C24: search_entity called with start and size returns the matching
\* entities, ordered by qualified name, at positions start .. start+size-1
\* that exist: fewer than size on a partial last page, none when start is at
\* or beyond the number of matches.
C24_Pagination ==
    [][res'.op = "search_entity" /\ res'.call.start # NoId /\ res'.call.size # NoId =>
          /\ res'.status = "ok"
          /\ res'.call.rows =
                 Page(search_rows(entities, edges, res'.call.keyword, res'.call.type,
                                  res'.call.project),
                      res'.call.start, res'.call.size)]_vars

(***************************************************************************)
(* Properties of the retried query (SpecRetry)                             *)
(***************************************************************************)
\* C25: a store query is attempted at most the configured number of times; it
\* returns at the first attempt that succeeds, every attempt before it having
\* failed, and it raises only when every attempt has failed.
C25_Retry ==
    /\ db_conn.attempts <= db_conn.retries
    /\ db_conn.pc = "returned" => db_conn.attempts = db_conn.i + 1
    /\ db_conn.pc = "raised" => db_conn.attempts = db_conn.i

(***************************************************************************)
(* Properties of the traversal on any edge store (SpecBfs)                 *)
(***************************************************************************)
\* some entity on an R-walk from x lies on an R-cycle
CycleReachable(G, x, R) ==
    \E y \in {x} \cup ReachableFrom(G, x, R) : y \in ReachableFrom(G, y, R)

\* C26: if the stored edges of relation R contain a cycle reachable from the
\* start identifier, the BFS over R never terminates: every step finds at
\* least one edge, so the frontier never becomes empty.
C26_CycleDiverges ==
    [][res'.op = "_bfs" /\ CycleReachable(edges, res'.arg, res'.call.conn_type) =>
          res'.status = "diverges"]_vars

\* a walk that started outside the cycle it ran into
C26_Witness ==
    /\ res.op = "_bfs"
    /\ res.status = "diverges"
    /\ res.arg \notin ReachableFrom(edges, res.arg, res.call.conn_type)

(***************************************************************************)
(* Properties of what a create call writes (SpecEdge)                      *)
(***************************************************************************)
Triples(G) == {<<g.from_id, g.to_id, g.conn_type>> : g \in G}

\* the edge R(a -> b) with its inverse
EdgePair(a, b, R) == {<<a, b, R>>, <<b, a, Inverse(R)>>}

\* the source attribute of the stored anchor
SourceOfAnchor(anchor_id) ==
    (CHOOSE e \in entities : e.entity_id = anchor_id).attributes.source

\* the edges the create call r is to add for the entity n it inserted
EdgesToAdd(r, n) ==
    CASE r.op = "create_project" -> {}
      [] r.op = "create_project_datasource" -> EdgePair(r.call.project_id, n, "Contains")
      [] r.op = "create_project_anchor" ->
             EdgePair(r.call.project_id, n, "Contains")
                 \cup EdgePair(n, r.call.definition.source_id, "Consumes")
      [] r.op = "create_project_anchor_feature" ->
             EdgePair(r.call.project_id, n, "Contains")
                 \cup EdgePair(r.call.anchor_id, n, "Contains")
                 \cup EdgePair(n, SourceOfAnchor(r.call.anchor_id), "Consumes")
      [] r.op = "create_project_derived_feature" ->
             EdgePair(r.call.project_id, n, "Contains")
                 \cup UNION {EdgePair(n, i, "Consumes") :
                                i \in Range(r.call.definition.input_anchor_features)
                                      \cup Range(r.call.definition.input_derived_features)}

\* C27: a create call that inserts a new entity n adds exactly the edges of
\* its kind and no others: none for a Project; Contains/BelongsTo with the
\* project for a Source; those and Consumes/Produces with the source for an
\* Anchor; Contains/BelongsTo with the project and with the anchor and
\* Consumes/Produces with the anchor's source for an AnchorFeature;
\* Contains/BelongsTo with the project and one Consumes/Produces pair per
\* input feature for a DerivedFeature.
C27_EdgesAdded ==
    [][res'.op \in CreateOps /\ res'.created =>
          Triples(edges' \ edges) = EdgesToAdd(res', res'.id)]_vars

\* an anchor feature was created under a project, an anchor and a source
C27_Witness ==
    /\ res.op = "create_project_anchor_feature"
    /\ res.created
    /\ Cardinality(Triples(EdgesTouching(edges, res.id))) = 6

\* C28: after a create call of any of the five kinds inserts a new entity and
\* returns the identifier i, get_entity(i) returns an entity whose id is i,
\* whose type is the created kind and whose qualified name is the computed
\* one, and every edge the call inserted has i at one of its ends.
C28_CreatedIsReadable ==
    [][res'.op \in CreateOps /\ res'.created =>
          /\ get_entity(entities', edges', res'.id).status = "ok"
          /\ get_entity(entities', edges', res'.id).value.entity_id = res'.id
          /\ get_entity(entities', edges', res'.id).value.entity_type = TypeCreatedBy(res'.op)
          /\ get_entity(entities', edges', res'.id).value.qualified_name = res'.qualified_name
          /\ \A g \in edges' \ edges : g.from_id = res'.id \/ g.to_id = res'.id]_vars

\* C29: in every state reached through the create calls and the create
\* endpoints the from_id and the to_id of every stored edge are identifiers
\* of stored entities, the Contains/BelongsTo edges that
\* create_project_anchor_feature writes for its project_id included.
C29_NoDanglingEdge ==
    \A g \in edges : Stored(entities, g.from_id) /\ Stored(entities, g.to_id)

\* a statement of a delete request removes entity rows
RequestRemoves == request.pc # "idle" \/ res'.op = "DELETE /entity, by statement"
RemovedRows == entities \ entities'

\* C30: every entity a delete request removes, be it the target or an Anchor
\* or Source of the cleanup pass, and whatever the answer of the request, has
\* an empty get_dependent_entities set on the stores it is removed from.
C30_RemovedHasNoDependents ==
    [][RequestRemoves =>
           \A e \in RemovedRows :
               LET d == get_dependent_entities(entities, edges, e.entity_id) IN
               d.status = "ok" /\ d.value = {}]_vars

\* the cleanup pass of a request has removed an Anchor of its list, and the
\* request is about to be rejected for the dependents that are left
C30_Witness ==
    /\ request.pc = "check"
    /\ \E row \in Range(request.list) :
           row.entity_type = "Anchor" /\ ~Stored(entities, row.entity_id)
    /\ get_dependent_entities(entities, edges, request.entity_id).value # {}

(***************************************************************************)
(* Properties of the stores between requests (SpecApi)                     *)
(***************************************************************************)
\* the Consumes edge rows that leave the stored entity e
ConsumesOf(e) == {g \in edges : g.from_id = e.entity_id /\ g.conn_type = "Consumes"}

\* C31: between requests get_entity succeeds for every stored entity; every
\* stored Anchor has a Consumes edge to a stored Source, and the Consumes
\* edges of every stored DerivedFeature lead to stored features.
C31_StoredIsReadable ==
    \A e \in entities :
        /\ get_entity(entities, edges, e.entity_id).status = "ok"
        /\ e.entity_type = "Anchor" =>
               \E g \in ConsumesOf(e) :
                   \E s \in entities : s.entity_id = g.to_id /\ s.entity_type = "Source"
        /\ e.entity_type = "DerivedFeature" =>
               \A g \in ConsumesOf(e) :
                   \E f \in entities :
                       /\ f.entity_id = g.to_id
                       /\ f.entity_type \in {"AnchorFeature", "DerivedFeature"}

(***************************************************************************)
(* Properties of get_project over two projects (SpecCross)                 *)
(***************************************************************************)
\* C32: on every store the create operations build, get_project succeeds for
\* every stored project: the sources, features and input features its anchors
\* and derived features refer to are among its direct children.
C32_GetProjectSucceeds ==
    \A p \in IdsOfType("Project") : get_project(entities, edges, p).status = "ok"

(***************************************************************************)
(* Properties of derived features over repeated inputs (SpecDup)           *)
(***************************************************************************)
\* the qualified name definition d gets under the stored project p is free
FreeUnder(p, d) ==
    \A e \in entities :
        e.qualified_name # (CHOOSE q \in entities : q.entity_id = p).qualified_name \o d.name

\* every identifier of the list is a stored entity of the type
AllStoredOfType(ids, entity_type) == Range(ids) \subseteq IdsOfType(entity_type)

\* C35: create_project_derived_feature under a free qualified name succeeds
\* whenever every listed input anchor feature is a stored AnchorFeature and
\* every listed input derived feature a stored DerivedFeature, also when an
\* identifier is listed more than once.
C35_RepeatedInputsAccepted ==
    \A p \in IdsOfType("Project") :
        \A d \in RepeatedInputDefs({<<"z">>, <<"w">>}, IdsOfType("AnchorFeature"),
                                  IdsOfType("DerivedFeature")) :
            (/\ FreeUnder(p, d)
             /\ AllStoredOfType(d.input_anchor_features, "AnchorFeature")
             /\ AllStoredOfType(d.input_derived_features, "DerivedFeature"))
            => LET o == create_project_derived_feature(entities, edges, is_sqlalchemy_supported,
                                                       uuid_next, p, d) IN
               o.status = "ok" /\ o.created

(***************************************************************************)
(* Properties of the wire connections of MssqlConnection (SpecWire)        *)
(***************************************************************************)
\* the thread is inside a transaction() scope
InScope(t) == mssql.pc[t] \in {"transaction", "transaction_execute"}

\* C34: while a transaction() scope is open, the query and update calls of
\* other threads run on another connection than the scope's, and no two
\* threads have statements running on the same connection at the same time.
C34_OneThreadPerConnection ==
    \A t \in Threads : \A u \in Threads \ {t} :
        /\ (InScope(t) /\ mssql.pc[u] = "query_execute") => mssql.on[t] # mssql.on[u]
        /\ (Executing(mssql, t) /\ Executing(mssql, u)) => mssql.on[t] # mssql.on[u]

(***************************************************************************)
(* Properties of a create call beside a delete request (SpecRace)          *)
(***************************************************************************)
\* no create call is between two of its statements and no delete request is
\* being served
Quiescent == request.pc = "idle" /\ \A c \in Callers : callers[c].pc # "writing"

\* the create_project_datasource call of c has returned the id of a stored entity
ReturnedStored(c) ==
    /\ callers[c].pc = "done"
    /\ callers[c].op = "create_project_datasource"
    /\ callers[c].status = "ok"
    /\ Stored(entities, callers[c].id)

\* C33: when a create call that refers to X and a delete request for X have
\* both finished, X is still stored or the new entity is not: no stored
\* entity refers to the deleted X.
C33_NoReferenceToDeleted ==
    Quiescent =>
        \A c \in Callers :
            ReturnedStored(c) => Stored(entities, callers[c].call.project_id)

(***************************************************************************)
(* Properties of the traversal over derived features (SpecDag)             *)
(***************************************************************************)
\* no edge row is in two of the step results the walk accumulated
EachEdgeOnce(connections) ==
    \A i \in 1..Len(connections) : \A j \in (i + 1)..Len(connections) :
        connections[i] \cap connections[j] = {}

\* C36: on every store the create operations build, the edge list one
\* traversal accumulates holds each stored edge at most once, also when a
\* node is reached from the start by paths of different lengths.
C36_EdgesAccumulatedOnce ==
    [][(res'.op = "_bfs" /\ res'.status = "ok") =>
           EachEdgeOnce(_bfs(entities, edges, res'.arg, res'.call.conn_type).connections)]_vars

(***************************************************************************)
(* Properties of the user roles (SpecRoles)                                *)
(***************************************************************************)
\* the active records of the table for the user's role on the project
ActiveRecords(roles, project_name, user_name, role_name) ==
    {r \in roles : /\ r.delete_reason = Null
                   /\ r.project_name = Lower(project_name)
                   /\ r.user_name = LowerAtom(user_name)
                   /\ r.role_name = LowerAtom(role_name)}

\* C37: add_userrole called while an active record of the same project, user
\* and role exists inserts nothing, whatever the letter case of the
\* arguments, and so at most one active record exists per project, user and
\* role.
C37_AddIsIdempotent ==
    [][/\ (/\ res'.op = "add_userrole"
           /\ ActiveRecords(userroles, res'.call.project_name, res'.call.user_name,
                            res'.call.role_name) # {})
          => userroles' = userroles
       /\ \A p \in RoleProjects, u \in RoleUsers, r \in RoleNames :
              Cardinality(ActiveRecords(userroles', p, u, r)) <= 1]_vars

\* some active record of the table gives the user the access on the project,
\* by a role on it or on the global scope
Granted(roles, project, user, access) ==
    \E r \in roles :
        /\ r.delete_reason = Null
        /\ r.user_name = LowerAtom(user)
        /\ r.project_name \in {Lower(project), SUPER_ADMIN_SCOPE}
        /\ access \in Access(r.role_name)

\* C38: an access decision is made on the roles stored when it is made: it
\* is true exactly when an active record grants the access; a completed
\* delete_userrole leaves no active record of that role, and a completed
\* add_userrole leaves every access of the role granted.
C38_DecisionsAreFresh ==
    [][/\ res'.op = "validate_project_access_users" =>
              res'.call.returned = Granted(userroles, res'.call.project_name,
                                           res'.call.user_name, res'.call.access)
       /\ res'.op = "delete_userrole" =>
              ActiveRecords(userroles', res'.call.project_name, res'.call.user_name,
                            res'.call.role_name) = {}
       /\ res'.op = "add_userrole" =>
              \A a \in Access(LowerAtom(res'.call.role_name)) :
                  Granted(userroles', res'.call.project_name, res'.call.user_name, a)]_vars

\* an access was refused that a deleted record used to grant, while an
\* instance still holds that record in its list
C38_Witness ==
    /\ res.op = "validate_project_access_users"
    /\ res.call.returned = FALSE
    /\ \E r \in userroles :
           /\ r.delete_reason # Null
           /\ r.user_name = LowerAtom(res.call.user_name)
           /\ r.project_name = Lower(res.call.project_name)
           /\ res.call.access \in Access(r.role_name)
           /\ \E i \in Instances : \E c \in rbac[i] : c.record_id = r.record_id

====
